---- MODULE Spec2Model ----
(***************************************************************************)
(* Delta-synchronisation pipeline of EAA_Automation: composite keys, the   *)
(* baseline snapshot / expiry pruning step, the page-by-page delta scan    *)
(* with early stop, and the two orchestrators job() and competitions().    *)
(*                                                                         *)
(* Python values are records [k, n, half, s]:                              *)
(*   k = "none"            None                                            *)
(*   k = "int"             the integer n                                   *)
(*   k = "float"           the float n.0 (half = FALSE) or n.5 (half=TRUE) *)
(*   k = "str"             the string whose characters are the sequence s  *)
(* A str result of the code is a sequence of one-character strings; the    *)
(* sentinels and the decimal form of an integer are single tokens.         *)
(***************************************************************************)
EXTENDS Integers, Sequences, FiniteSets, TLC

VARIABLES
    pipeline,        \* "jobs" (job_rtdb / job_platforms) or "competitions"
    today,           \* date.today(), as a day number
    remote,          \* the remote collection: push key -> stored record
    next_key,        \* next push key the store generates
    source,          \* the listing of the external API: sequence of pages
    pc,              \* position of the run / of the function under check
    run,             \* number of the current run of the orchestrator
    failure,         \* why the run aborted ("" while it has not)
    raw,             \* snapshot_prune_delete_and_save: first ref.get()
    expired_keys,    \* snapshot_prune_delete_and_save: keys to delete
    del_i,           \* index of the next expired key to delete
    del_log,         \* outcome of every delete issued: <<push key, ok>>
    expired_deleted, \* snapshot_prune_delete_and_save: successful deletes
    cleaned,         \* snapshot_prune_delete_and_save: second ref.get()
    existing_keys,   \* the returned Existing-Key Set
    max_pages,       \* cfg.max_pages of the scan
    stop_when_page_all_seen,
    page,            \* scrape_*: page counter
    stats,           \* scrape_*: stats dict
    delta_rows,      \* scrape_*: delta list
    fetched,         \* pages fetched by this scan, in order (history)
    last_all_seen,   \* page_all_seen of the last classified page
    all_delta_rows,  \* orchestrator: concatenated deltas
    uploaded,        \* upload_rows_push_keys: rows pushed so far
    report,          \* reports returned by completed runs
    push_log,        \* every ref.push of the upload: <<row, ok, push key>>
    prev_baseline,   \* what an earlier call of the baseline step returned
    firebase_app,    \* _firebase_app of firebase_client and of job_rtdb
    sdk_app,         \* firebase_admin holds a default app
    config_ok,       \* the FIREBASE_* environment is valid
    init_log,        \* outcome of every call of an init function
    kin,             \* key builders under check: the inputs
    kout,            \* key builders under check: the results
    node_kind,       \* what the node holds: "dict", "list" or "scalar"
    oplog,           \* the remote and file operations of the run, in order
    second           \* the locals of a second request served meanwhile

vars == <<pipeline, today, remote, next_key, source, pc, run, failure,
          raw, expired_keys, del_i, del_log, expired_deleted, cleaned,
          existing_keys, max_pages, stop_when_page_all_seen, page, stats,
          delta_rows, fetched, last_all_seen, all_delta_rows, uploaded,
          report, push_log, prev_baseline, firebase_app, sdk_app, config_ok,
          init_log, kin, kout, node_kind, oplog, second>>

-----------------------------------------------------------------------------
(* Python values                                                           *)

PyNone == [k |-> "none", n |-> 0, half |-> FALSE, s |-> <<>>]
PyInt(n) == [k |-> "int", n |-> n, half |-> FALSE, s |-> <<>>]
PyFloat(n, half) == [k |-> "float", n |-> n, half |-> half, s |-> <<>>]
PyStr(s) == [k |-> "str", n |-> 0, half |-> FALSE, s |-> s]

\* Optional[int]
NoInt == [ok |-> FALSE, v |-> 0]
SomeInt(v) == [ok |-> TRUE, v |-> v]

\* Optional[str] key: None is the empty sequence (the code tests "if k:")
NoKey == <<>>

Digits == {"0", "1", "2", "3", "4", "5", "6", "7", "8", "9"}

DigitVal(c) ==
    CASE c = "0" -> 0 [] c = "1" -> 1 [] c = "2" -> 2 [] c = "3" -> 3
      [] c = "4" -> 4 [] c = "5" -> 5 [] c = "6" -> 6 [] c = "7" -> 7
      [] c = "8" -> 8 [] c = "9" -> 9 [] OTHER -> 0

LowerChar(c) ==
    CASE c = "J" -> "j" [] c = "O" -> "o" [] c = "B" -> "b"
      [] c = "U" -> "u" [] OTHER -> c

\* str.lower()
Lower(s) == [i \in 1..Len(s) |-> LowerChar(s[i])]

RECURSIVE LStrip(_)
LStrip(s) == IF s # <<>> /\ Head(s) = " " THEN LStrip(Tail(s)) ELSE s

RECURSIVE RStrip(_)
RStrip(s) ==
    IF s # <<>> /\ s[Len(s)] = " " THEN RStrip(SubSeq(s, 1, Len(s) - 1)) ELSE s

\* str.strip()
Strip(s) == RStrip(LStrip(s))

\* str(x) of an integer: one token, its decimal form
IntText(n) == <<ToString(n)>>

\* str(x)
Str(x) ==
    CASE x.k = "str" -> x.s
      [] x.k = "none" -> <<"N", "o", "n", "e">>
      [] x.k = "int" -> IntText(x.n)
      [] OTHER -> <<ToString(x.n), ".", IF x.half THEN "5" ELSE "0">>

\* truth value of x, as in "x or default"
Truthy(x) ==
    CASE x.k = "none" -> FALSE
      [] x.k = "str" -> x.s # <<>>
      [] x.k = "int" -> x.n # 0
      [] OTHER -> x.n # 0 \/ x.half

RECURSIVE DigitsValue(_)
DigitsValue(s) ==
    IF s = <<>> THEN 0
    ELSE 10 * DigitsValue(SubSeq(s, 1, Len(s) - 1)) + DigitVal(s[Len(s)])

AllDigits(s) == s # <<>> /\ \A i \in 1..Len(s) : s[i] \in Digits

\* position of the first "." of s, 0 when there is none
RECURSIVE DotAt(_, _)
DotAt(s, i) ==
    IF i > Len(s) THEN 0 ELSE IF s[i] = "." THEN i ELSE DotAt(s, i + 1)

\* int(x): the built-in, NoInt where it raises
PyIntOf(x) ==
    CASE x.k = "int" -> SomeInt(x.n)
      [] x.k = "float" -> SomeInt(x.n)
      [] x.k = "str" ->
            IF AllDigits(Strip(x.s)) THEN SomeInt(DigitsValue(Strip(x.s)))
            ELSE NoInt
      [] OTHER -> NoInt

\* int(float(x)): NoInt where either call raises
PyIntOfFloat(x) ==
    CASE x.k = "int" -> SomeInt(x.n)
      [] x.k = "float" -> SomeInt(x.n)
      [] x.k = "str" ->
            LET t == Strip(x.s)
                d == DotAt(t, 1)
                ip == IF d = 0 THEN t ELSE SubSeq(t, 1, d - 1)
                fp == IF d = 0 THEN <<>> ELSE SubSeq(t, d + 1, Len(t))
            IN IF d = 0
               THEN IF AllDigits(t) THEN SomeInt(DigitsValue(t)) ELSE NoInt
               ELSE IF /\ (ip = <<>> \/ AllDigits(ip))
                       /\ (fp = <<>> \/ AllDigits(fp))
                       /\ (ip # <<>> \/ fp # <<>>)
                    THEN SomeInt(DigitsValue(ip))
                    ELSE NoInt
      [] OTHER -> NoInt

-----------------------------------------------------------------------------
(* Stored records and canonical rows.  A record is                         *)
(*   [isdict, platform, type, legacy_type, url_unstop, id, deadline]       *)
(* type is "competition_type" (competitions) or "oppurtunity_type" (jobs), *)
(* id is "competition_id" or "job_id", legacy_type is the first non-empty  *)
(* of the legacy fields subtype/type/opportunity_type/opportunity, and     *)
(* url_unstop says that one of application_url/short_url/public_url        *)
(* contains "unstop.com".  obj.get(f) of an absent field is PyNone.        *)

Rec(platform, type, id, deadline) ==
    [isdict |-> TRUE, platform |-> platform, type |-> type,
     legacy_type |-> PyNone, url_unstop |-> FALSE, id |-> id,
     deadline |-> deadline]

Unstop == <<"u", "n", "s", "t", "o", "p">>

-----------------------------------------------------------------------------
(* Composite keys, baseline side: app/ops/competition_rtdb.py              *)

coerce_int(value) ==
    IF value.k = "none" THEN NoInt
    ELSE IF PyIntOf(value).ok THEN PyIntOf(value) ELSE PyIntOfFloat(value)

make_comp_key(platform, comp_type, comp_id) ==
    LET cid == coerce_int(comp_id)
        p0 == Strip(IF platform.k # "none"
                    THEN Lower(Strip(Str(platform))) ELSE <<>>)
        t0 == Strip(IF comp_type.k # "none"
                    THEN Lower(Strip(Str(comp_type))) ELSE <<>>)
        p == IF p0 = <<>> THEN <<"unknown_platform">> ELSE p0
        t == IF t0 = <<>> THEN <<"unknown_type">> ELSE t0
    IN IF ~cid.ok THEN NoKey
       ELSE p \o <<":">> \o t \o <<":">> \o IntText(cid.v)

-----------------------------------------------------------------------------
(* Composite keys, baseline side: app/ops/job_rtdb.py                      *)

norm_str(x) == IF x.k # "none" THEN Lower(Strip(Str(x))) ELSE <<>>

infer_platform(obj) ==
    LET p == norm_str(obj.platform)
    IN IF p # <<>> THEN p
       ELSE IF obj.url_unstop THEN Unstop ELSE <<>>

infer_opp_type(obj) ==
    LET ot == norm_str(obj.type)
    IN IF ot # <<>> THEN ot ELSE norm_str(obj.legacy_type)

extract_composite_key(obj) ==
    LET platform == infer_platform(obj)
        opp_type == infer_opp_type(obj)
        raw_jid == obj.id
    IN IF platform = <<>> \/ opp_type = <<>> THEN NoKey
       ELSE IF raw_jid.k = "none" \/ Strip(Str(raw_jid)) = <<>> THEN NoKey
       ELSE IF ~PyIntOf(raw_jid).ok THEN NoKey
       ELSE platform \o <<":">> \o opp_type \o <<":">>
                \o IntText(PyIntOf(raw_jid).v)

-----------------------------------------------------------------------------
(* Composite keys, adapter side: app/competition_platforms/unstop.py       *)

coerce_comp_id(v) ==
    IF v.k = "none" \/ Strip(Str(v)) = <<>> THEN NoInt
    ELSE IF PyIntOf(v).ok THEN PyIntOf(v) ELSE PyIntOfFloat(v)

\* platform and comp_type are str or None, comp_id is an int
adapter_make_comp_key(platform, comp_type, comp_id) ==
    LET p0 == Lower(Strip(IF Truthy(platform) THEN platform.s ELSE <<>>))
        t0 == Lower(Strip(IF Truthy(comp_type) THEN comp_type.s ELSE <<>>))
        p == IF p0 = <<>> THEN <<"unknown_platform">> ELSE p0
        t == IF t0 = <<>> THEN <<"unknown_type">> ELSE t0
    IN p \o <<":">> \o t \o <<":">> \o IntText(comp_id)

-----------------------------------------------------------------------------
(* Composite keys, adapter side: app/job_platforms/unstop.py               *)

coerce_job_id(row) ==
    LET jid == row.id
    IN IF jid.k = "none" \/ Strip(Str(jid)) = <<>> THEN NoInt
       ELSE PyIntOf(jid)

norm_opp_type(row) ==
    Lower(Strip(IF Truthy(row.type) THEN Str(row.type) ELSE <<>>))

make_job_key(platform, opp_type, job_id) ==
    LET p0 == Lower(Strip(IF Truthy(platform) THEN platform.s ELSE <<>>))
        t0 == Lower(Strip(IF Truthy(opp_type) THEN opp_type.s ELSE <<>>))
        p == IF p0 = <<>> THEN <<"unknown_platform">> ELSE p0
        t == IF t0 = <<>> THEN <<"unknown_type">> ELSE t0
    IN p \o <<":">> \o t \o <<":">> \o IntText(job_id)

-----------------------------------------------------------------------------
(* Deadlines.  A deadline text is a sequence of tokens:                    *)
(*   "D<n>"  the ten characters YYYY-MM-DD of day n                        *)
(*   "d<n>"  day n written without zero padding (eight characters)         *)
(*   "T"     a time-of-day suffix such as T23:59:00+05:30 (15 characters)  *)
(*   " ", "x" one blank, one character that is no part of a date           *)
(*   "~"     what is left of a token that a slice cut                      *)

MaxDay == 2
Days == 0..MaxDay

DateTok(n) == "D" \o ToString(n)
ShortDateTok(n) == "d" \o ToString(n)

IsDateTok(tok) == \E n \in Days : tok = DateTok(n) \/ tok = ShortDateTok(n)
DayOfTok(tok) == CHOOSE n \in Days : tok = DateTok(n) \/ tok = ShortDateTok(n)

TokWidth(tok) ==
    IF \E n \in Days : tok = DateTok(n) THEN 10
    ELSE IF \E n \in Days : tok = ShortDateTok(n) THEN 8
    ELSE IF tok = "T" THEN 15 ELSE 1

RECURSIVE TextWidth(_)
TextWidth(s) == IF s = <<>> THEN 0 ELSE TokWidth(Head(s)) + TextWidth(Tail(s))

\* s[:n]
RECURSIVE TakeChars(_, _)
TakeChars(s, n) ==
    IF s = <<>> \/ n <= 0 THEN <<>>
    ELSE IF TokWidth(Head(s)) <= n
         THEN <<Head(s)>> \o TakeChars(Tail(s), n - TokWidth(Head(s)))
         ELSE <<"~">>

\* Optional[date]
NoDate == [ok |-> FALSE, day |-> 0]
SomeDate(d) == [ok |-> TRUE, day |-> d]

\* y, m, d = txt.split("-"); date(int(y), int(m), int(d))
SplitDate(txt) ==
    IF Len(txt) = 1 /\ IsDateTok(txt[1]) THEN SomeDate(DayOfTok(txt[1]))
    ELSE NoDate

\* the parser without the slice to ten characters
parse_deadline_noslice(s) ==
    IF s.k = "none" THEN NoDate
    ELSE LET txt == Strip(Str(s))
         IN IF txt = <<>> THEN NoDate ELSE SplitDate(txt)

parse_deadline_yyyy_mm_dd(s) ==
    IF s.k = "none" THEN NoDate
    ELSE LET txt == Strip(Str(s))
         IN IF txt = <<>> THEN NoDate
            ELSE SplitDate(IF TextWidth(txt) >= 10
                           THEN TakeChars(txt, 10) ELSE txt)

\* adapters: format_ist_date
format_ist_date(value) ==
    IF value.k = "none" THEN <<>>
    ELSE LET s == Strip(Str(value))
         IN IF s = <<>> THEN <<>>
            ELSE IF \E n \in Days : Head(s) = DateTok(n) THEN <<Head(s)>>
            ELSE IF TextWidth(s) >= 10 THEN TakeChars(s, 10) ELSE <<>>

-----------------------------------------------------------------------------
(* Raw items of the listing and the rows the adapters make of them.  An    *)
(* item is [isdict, id, type, end_date]; type is item["type"] for          *)
(* competitions and item["subtype"] for jobs.                              *)

Item(id, type, end_date) ==
    [isdict |-> TRUE, id |-> id, type |-> type, end_date |-> end_date]

NonDictItem == [isdict |-> FALSE, id |-> PyNone, type |-> PyNone,
                end_date |-> PyNone]

\* competition_platforms/unstop.py: extract_row
comp_extract_row(item) ==
    Rec(PyStr(Unstop),
        PyStr(Strip(IF Truthy(item.type) THEN Str(item.type) ELSE <<>>)),
        item.id,
        PyStr(format_ist_date(item.end_date)))

\* job_platforms/unstop.py: remap_row(extract_row(item))
job_remap_row(item) ==
    Rec(PyStr(Unstop), item.type, item.id,
        PyStr(format_ist_date(item.end_date)))

extract_row(pl, item) ==
    IF pl = "jobs" THEN job_remap_row(item) ELSE comp_extract_row(item)

\* the id the adapter coerces from a row
row_id(pl, row) ==
    IF pl = "jobs" THEN coerce_job_id(row) ELSE coerce_comp_id(row.id)

\* the key the adapter computes for a row with coerced id cid
row_key(pl, row, cid) ==
    IF pl = "jobs"
    THEN make_job_key(PyStr(Unstop), PyStr(norm_opp_type(row)), cid)
    ELSE adapter_make_comp_key(
             PyStr(Unstop),
             PyStr(Strip(IF Truthy(row.type) THEN Str(row.type) ELSE <<>>)),
             cid)

\* the key the baseline derives from a stored record
baseline_key(pl, obj) ==
    IF pl = "jobs" THEN extract_composite_key(obj)
    ELSE make_comp_key(obj.platform, obj.type, obj.id)

-----------------------------------------------------------------------------
(* The remote store.  remote maps the push keys in use to their records;   *)
(* ref.get() returns the mapping, or None for an empty collection, which   *)
(* the code replaces by {}. A node that holds a list has its elements in   *)
(* remote under their indexes; a node that holds a scalar has none.        *)

EmptyMap == [k \in {} |-> 0]

\* the keys of a mapping in the order .items() yields them
RECURSIVE KeysInOrder(_)
KeysInOrder(S) ==
    IF S = {} THEN <<>>
    ELSE LET m == CHOOSE x \in S : \A y \in S : x <= y
         IN <<m>> \o KeysInOrder(S \ {m})

\* ref.get() without the isinstance test: a list is walked like a mapping
ref_get_unchecked == remote

\* ref.get() followed by "if not isinstance(raw, dict): raw = {}": an empty
\* node reads as None, a node holding a list or a scalar as that value
ref_get ==
    IF node_kind = "dict" /\ DOMAIN remote # {} THEN remote ELSE EmptyMap

\* a delete that returns without removing the record
Without_Kept(m, k) == m

\* the collection after ref.child(k).delete()
Without(m, k) == [x \in DOMAIN m \ {k} |-> m[x]]
\* a push that returns a key without storing the row
With_Lost(m, k, v) == m

\* a push that stores nothing when an equal record is stored already
With_Idempotent(m, k, v) ==
    IF \E x \in DOMAIN m : m[x] = v THEN m
    ELSE [x \in DOMAIN m \cup {k} |-> IF x = k THEN v ELSE m[x]]

\* the collection after ref.push(v) generated the key k
With(m, k, v) == [x \in DOMAIN m \cup {k} |-> IF x = k THEN v ELSE m[x]]

-----------------------------------------------------------------------------
(* Shared constants and the state of a function that is not running        *)

Pipelines == {"jobs", "competitions"}

MaxId == 2

ZeroStats ==
    [pages_fetched |-> 0, items_seen |-> 0, kept_delta |-> 0,
     skipped_existing |-> 0, skipped_missing_id |-> 0,
     early_stop_all_seen_page |-> 0]

NoKeyOut ==
    [base |-> NoKey, scan_id |-> NoInt, scan_key |-> NoKey,
     stored_key |-> NoKey, adapter |-> NoKey]

NoKeyIn ==
    [platform |-> PyNone, type |-> PyNone, id |-> PyNone,
     legacy_type |-> PyNone, url_unstop |-> FALSE]

\* the locals of snapshot_prune_delete_and_save before it runs
BaselineIdle ==
    /\ raw = <<>>
    /\ expired_keys = <<>>
    /\ del_i = 1
    /\ del_log = <<>>
    /\ expired_deleted = 0
    /\ cleaned = <<>>
    /\ existing_keys = {}

\* the locals of scrape_jobs / scrape_competitions at their first statement
ScanIdle ==
    /\ page = 1
    /\ stats = ZeroStats
    /\ delta_rows = <<>>
    /\ fetched = <<>>
    /\ last_all_seen = FALSE

OrchIdle ==
    /\ all_delta_rows = <<>>
    /\ uploaded = 0
    /\ report = <<>>
    /\ run = 1
    /\ failure = ""
    /\ push_log = <<>>
    /\ oplog = <<>>

\* no second request is being served
NoSecond ==
    [pc |-> "idle", raw |-> <<>>, expired_keys |-> <<>>, del_i |-> 1,
     del_log |-> <<>>, cleaned |-> <<>>, existing_keys |-> {},
     delta_rows |-> <<>>, uploaded |-> 0, push_log |-> <<>>]

\* no earlier call of the baseline step
NoPrev == [called |-> FALSE, existing_keys |-> {}, del_log |-> <<>>]

\* a process that has not called an init function: both module globals
\* _firebase_app are None and firebase_admin has no default app
NoApps == [client |-> FALSE, job |-> FALSE]

ProcessIdle ==
    /\ prev_baseline = NoPrev
    /\ firebase_app = NoApps
    /\ sdk_app = FALSE
    /\ config_ok = TRUE
    /\ init_log = <<>>

blVars == <<raw, expired_keys, del_i, del_log, expired_deleted, cleaned,
            existing_keys>>
prevVars == <<prev_baseline>>
scVars == <<page, stats, delta_rows, fetched, last_all_seen>>
cfgVars == <<pipeline, today, source, max_pages, stop_when_page_all_seen,
             node_kind>>
orchVars == <<all_delta_rows, uploaded, report, run, failure, push_log>>
fbVars == <<firebase_app, sdk_app, config_ok, init_log>>
keyVars == <<kin, kout>>

-----------------------------------------------------------------------------
(* SpecKey: the key builders applied to bounded inputs                     *)

KeyPlatforms ==
    {PyNone, PyStr(<<>>), PyStr(Unstop),
     PyStr(<<"U", "n", "s", "t", "o", "p">>),
     PyStr(<<" ", "u", "n", "s", "t", "o", "p", " ">>)}

KeyTypes ==
    {PyNone, PyStr(<<>>), PyStr(<<" ">>), PyStr(<<"j", "o", "b">>),
     PyStr(<<"J", "o", "b">>), PyStr(<<" ", "J", "O", "B", " ">>)}

KeyIds ==
    {PyNone, PyInt(42), PyStr(<<>>), PyStr(<<" ">>),
     PyStr(<<"a", "b", "c">>), PyStr(<<"4", "2">>),
     PyStr(<<" ", "4", "2", " ">>), PyStr(<<"4", "2", ".", "0">>),
     PyStr(<<"4", "2", ".", "5">>)}
    \cup {PyInt(n) : n \in 1..MaxId}
    \cup {PyFloat(n, h) : n \in 1..MaxId, h \in BOOLEAN}

KeyInputs ==
    [platform : KeyPlatforms, type : KeyTypes, id : KeyIds,
     legacy_type : {PyNone, PyStr(<<"J", "o", "b">>)},
     url_unstop : BOOLEAN]

KeyInit ==
    /\ pipeline \in Pipelines
    /\ kin \in KeyInputs
    /\ kout = NoKeyOut
    /\ pc = "key"
    /\ node_kind = "dict"
    /\ second = NoSecond
    /\ today = 0
    /\ remote = EmptyMap
    /\ next_key = 1
    /\ source = <<>>
    /\ max_pages = 0
    /\ stop_when_page_all_seen = TRUE
    /\ BaselineIdle /\ ScanIdle /\ OrchIdle /\ ProcessIdle

\* the stored record with the fields of kin
KinRecord ==
    [isdict |-> TRUE, platform |-> kin.platform, type |-> kin.type,
     legacy_type |-> kin.legacy_type, url_unstop |-> kin.url_unstop,
     id |-> kin.id, deadline |-> PyNone]

\* the adapter's key builder on kin, for a str-or-None platform and type
\* and the id its coercion function returns
AdapterBuild(pl, cid) ==
    IF pl = "jobs" THEN make_job_key(kin.platform, kin.type, cid)
    ELSE adapter_make_comp_key(kin.platform, kin.type, cid)

\* One evaluation of the builders: the baseline-side builder on the stored
\* record kin; the adapter on the item (kin.id, kin.type): its row, the id
\* it coerces, its key, and the key a later baseline derives from that row
BuildKeys ==
    /\ pc = "key"
    /\ pc' = "keyed"
    /\ LET row == extract_row(pipeline, Item(kin.id, kin.type, PyNone))
           cid == row_id(pipeline, row)
       IN kout' = [base |-> baseline_key(pipeline, KinRecord),
                   scan_id |-> cid,
                   scan_key |-> IF cid.ok THEN row_key(pipeline, row, cid.v)
                                ELSE NoKey,
                   stored_key |-> baseline_key(pipeline, row),
                   adapter |-> IF cid.ok THEN AdapterBuild(pipeline, cid.v)
                               ELSE NoKey]
    /\ UNCHANGED <<remote, next_key, kin, cfgVars, fbVars, prevVars, blVars, scVars, orchVars,
                   second, oplog>>

KeyNext == BuildKeys

SpecKey == KeyInit /\ [][KeyNext]_vars

-----------------------------------------------------------------------------
(* The init functions of the remote-store client                           *)
(* (app/ops/firebase_client.py, app/ops/job_rtdb.py)                       *)

\* what a call does: result is "ok" or the exception raised, initialize_app
\* says that firebase_admin.initialize_app was invoked, app and sdk are the
\* module globals and the default-app registry of firebase_admin afterwards
InitOutcome(result, called, app, sdk) ==
    [result |-> result, initialize_app |-> called, app |-> app, sdk |-> sdk]

\* firebase_client.init_firebase(): the module cache, then
\* firebase_admin.get_app(), then the environment, then initialize_app
init_firebase(app, sdk, cfg) ==
    IF app.client THEN InitOutcome("ok", FALSE, app, sdk)
    ELSE IF sdk
         THEN InitOutcome("ok", FALSE, [app EXCEPT !.client = TRUE], sdk)
    ELSE IF ~cfg THEN InitOutcome("RuntimeError", FALSE, app, sdk)
    ELSE InitOutcome("ok", TRUE, [app EXCEPT !.client = TRUE], TRUE)

\* job_rtdb._init_firebase(): the module cache, then the environment, then
\* initialize_app, which raises ValueError when the default app exists
job_rtdb_init_firebase(app, sdk, cfg) ==
    IF app.job THEN InitOutcome("ok", FALSE, app, sdk)
    ELSE IF ~cfg THEN InitOutcome("RuntimeError", FALSE, app, sdk)
    ELSE IF sdk THEN InitOutcome("ValueError", TRUE, app, sdk)
    ELSE InitOutcome("ok", TRUE, [app EXCEPT !.job = TRUE], TRUE)

\* the init function a pipeline's baseline and upload steps call
InitOf(pl) ==
    IF pl = "jobs"
    THEN job_rtdb_init_firebase(firebase_app, sdk_app, config_ok)
    ELSE init_firebase(firebase_app, sdk_app, config_ok)

\* the entry of init_log for a call of pipeline pl with outcome r
InitEntry(pl, r) ==
    [module |-> IF pl = "jobs" THEN "job_rtdb" ELSE "firebase_client",
     result |-> r.result, initialize_app |-> r.initialize_app]

-----------------------------------------------------------------------------
(* Baseline Snapshot Manager: snapshot_prune_delete_and_save               *)
(* (app/ops/job_rtdb.py and app/ops/competition_rtdb.py)                   *)

\* the comparison with its operands swapped
is_expired_swapped(v, t) ==
    /\ v.isdict
    /\ LET dl == parse_deadline_yyyy_mm_dd(v.deadline)
       IN dl.ok /\ t < dl.day

\* a deadline that does not parse counts as passed
is_expired_unparsed(v, t) ==
    /\ v.isdict
    /\ LET dl == parse_deadline_yyyy_mm_dd(v.deadline)
       IN ~dl.ok \/ dl.day < t

\* today counts as passed
is_expired_inclusive(v, t) ==
    /\ v.isdict
    /\ LET dl == parse_deadline_yyyy_mm_dd(v.deadline)
       IN dl.ok /\ dl.day <= t

\* "dl is not None and dl < today", for a mapping v
is_expired(v, t) ==
    /\ v.isdict
    /\ LET dl == parse_deadline_yyyy_mm_dd(v.deadline)
       IN dl.ok /\ dl.day < t

\* the loop that collects expired_keys
RECURSIVE ExpiredOf(_, _, _)
ExpiredOf(m, ks, t) ==
    IF ks = <<>> THEN <<>>
    ELSE (IF is_expired(m[Head(ks)], t) THEN <<Head(ks)>> ELSE <<>>)
             \o ExpiredOf(m, Tail(ks), t)

\* the key loop finding no key
KeySetOf_Empty(pl, m) == {}

\* the loop that builds existing_keys from the cleaned snapshot
KeySetOf(pl, m) ==
    {baseline_key(pl, m[k]) : k \in {x \in DOMAIN m : m[x].isdict}} \ {NoKey}

\* _init_firebase .. the first ref.get() and the expiry loop
BaselineStart ==
    /\ pc = "start"
    /\ InitOf(pipeline).result = "ok"
    /\ firebase_app' = InitOf(pipeline).app
    /\ sdk_app' = InitOf(pipeline).sdk
    /\ init_log' = Append(init_log, InitEntry(pipeline, InitOf(pipeline)))
    /\ raw' = ref_get
    /\ expired_keys' = ExpiredOf(ref_get, KeysInOrder(DOMAIN ref_get), today)
    /\ del_i' = 1
    /\ del_log' = <<>>
    /\ expired_deleted' = 0
    /\ pc' = "prune"
    /\ oplog' = oplog \o <<"unlink_latest", "get">>
    /\ UNCHANGED <<remote, next_key, cleaned, existing_keys, cfgVars, config_ok, prevVars, scVars,
                   orchVars, keyVars,
                   second>>

\* _init_firebase() called after the files of out_dir were deleted
InitError_AfterUnlink ==
    /\ pc = "start"
    /\ InitOf(pipeline).result # "ok"
    /\ firebase_app' = InitOf(pipeline).app
    /\ sdk_app' = InitOf(pipeline).sdk
    /\ init_log' = Append(init_log, InitEntry(pipeline, InitOf(pipeline)))
    /\ pc' = "failed"
    /\ failure' = "init"
    /\ oplog' = Append(oplog, "unlink_latest")
    /\ UNCHANGED <<remote, next_key, cfgVars, config_ok, prevVars, blVars,
                   scVars, all_delta_rows, uploaded, report, run, push_log,
                   keyVars, second>>

\* _init_firebase() raises: the function ends at its first statement
InitError ==
    /\ pc = "start"
    /\ InitOf(pipeline).result # "ok"
    /\ firebase_app' = InitOf(pipeline).app
    /\ sdk_app' = InitOf(pipeline).sdk
    /\ init_log' = Append(init_log, InitEntry(pipeline, InitOf(pipeline)))
    /\ pc' = "failed"
    /\ failure' = "init"
    /\ UNCHANGED <<remote, next_key, cfgVars, config_ok, prevVars, blVars,
                   scVars, all_delta_rows, uploaded, report, run, push_log,
                   keyVars, second, oplog>>

\* ref.child(push_key).delete() succeeds
DeleteOk ==
    /\ pc = "prune"
    /\ del_i <= Len(expired_keys)
    /\ remote' = Without(remote, expired_keys[del_i])
    /\ expired_deleted' = expired_deleted + 1
    /\ del_log' = Append(del_log, <<expired_keys[del_i], TRUE>>)
    /\ del_i' = del_i + 1
    /\ oplog' = Append(oplog, "delete")
    /\ UNCHANGED <<next_key, pc, raw, expired_keys, cleaned, existing_keys,
                   cfgVars, fbVars, prevVars, scVars, orchVars, keyVars,
                   second>>

\* the first delete that raises ends the loop
DeleteFail_Aborts ==
    /\ pc = "prune"
    /\ del_i <= Len(expired_keys)
    /\ del_log' = Append(del_log, <<expired_keys[del_i], FALSE>>)
    /\ del_i' = Len(expired_keys) + 1
    /\ oplog' = Append(oplog, "delete")
    /\ UNCHANGED <<remote, next_key, pc, raw, expired_keys, expired_deleted,
                   cleaned, existing_keys, cfgVars, fbVars, prevVars, scVars,
                   orchVars, keyVars,
                   second>>

\* ref.child(push_key).delete() raises: "except Exception: pass"
DeleteFail ==
    /\ pc = "prune"
    /\ del_i <= Len(expired_keys)
    /\ del_log' = Append(del_log, <<expired_keys[del_i], FALSE>>)
    /\ del_i' = del_i + 1
    /\ oplog' = Append(oplog, "delete")
    /\ UNCHANGED <<remote, next_key, pc, raw, expired_keys, expired_deleted,
                   cleaned, existing_keys, cfgVars, fbVars, prevVars, scVars, orchVars, keyVars,
                   second>>

\* the second ref.get(), the saved snapshot, the key set and the result
BaselineFinish ==
    /\ pc = "prune"
    /\ del_i > Len(expired_keys)
    /\ cleaned' = ref_get
    /\ existing_keys' = KeySetOf(pipeline, ref_get)
    /\ pc' = "baselined"
    /\ oplog' = oplog \o <<"get", "write_latest">>
    /\ UNCHANGED <<remote, next_key, raw, expired_keys, del_i, del_log,
                   expired_deleted, cfgVars, fbVars, prevVars, scVars, orchVars, keyVars,
                   second>>

\* fields of the BaselineSnapshotResult
expired_keys_count == Len(expired_keys)
kept_count == Cardinality(DOMAIN cleaned)

-----------------------------------------------------------------------------
(* Source Adapter: scrape_jobs / scrape_competitions                       *)
(* (app/job_platforms/unstop.py and app/competition_platforms/unstop.py)   *)

\* the loop with an item whose key exists appended to the delta as well
RECURSIVE ClassifyPage_KeepsExisting(_, _, _, _, _, _)
ClassifyPage_KeepsExisting(pl, items, existing, st, dr, seen) ==
    IF items = <<>> THEN [stats |-> st, delta_rows |-> dr, all_seen |-> seen]
    ELSE
      LET item == Head(items)
          row == extract_row(pl, item)
          st1 == [st EXCEPT !.items_seen = @ + 1]
          cid == row_id(pl, row)
      IN IF ~item.isdict
         THEN ClassifyPage_KeepsExisting(pl, Tail(items), existing, st, dr,
                                         seen)
         ELSE IF ~cid.ok
         THEN ClassifyPage_KeepsExisting(
                  pl, Tail(items), existing,
                  [st1 EXCEPT !.skipped_missing_id = @ + 1], dr, FALSE)
         ELSE IF row_key(pl, row, cid.v) \in existing
         THEN ClassifyPage_KeepsExisting(
                  pl, Tail(items), existing,
                  [st1 EXCEPT !.skipped_existing = @ + 1],
                  Append(dr, row), seen)
         ELSE ClassifyPage_KeepsExisting(
                  pl, Tail(items), existing,
                  [st1 EXCEPT !.kept_delta = @ + 1], Append(dr, row), FALSE)

\* the loop with page_all_seen left alone by an item without id
RECURSIVE ClassifyPage_MissingIdSeen(_, _, _, _, _, _)
ClassifyPage_MissingIdSeen(pl, items, existing, st, dr, seen) ==
    IF items = <<>> THEN [stats |-> st, delta_rows |-> dr, all_seen |-> seen]
    ELSE
      LET item == Head(items)
          row == extract_row(pl, item)
          st1 == [st EXCEPT !.items_seen = @ + 1]
          cid == row_id(pl, row)
      IN IF ~item.isdict
         THEN ClassifyPage_MissingIdSeen(pl, Tail(items), existing, st, dr,
                                         seen)
         ELSE IF ~cid.ok
         THEN ClassifyPage_MissingIdSeen(
                  pl, Tail(items), existing,
                  [st1 EXCEPT !.skipped_missing_id = @ + 1], dr, seen)
         ELSE IF row_key(pl, row, cid.v) \in existing
         THEN ClassifyPage_MissingIdSeen(
                  pl, Tail(items), existing,
                  [st1 EXCEPT !.skipped_existing = @ + 1], dr, seen)
         ELSE ClassifyPage_MissingIdSeen(
                  pl, Tail(items), existing,
                  [st1 EXCEPT !.kept_delta = @ + 1], Append(dr, row), FALSE)

\* the loop without the "continue" of an item without id: the item falls
\* through to the delta
RECURSIVE ClassifyPage_MissingIdKept(_, _, _, _, _, _)
ClassifyPage_MissingIdKept(pl, items, existing, st, dr, seen) ==
    IF items = <<>> THEN [stats |-> st, delta_rows |-> dr, all_seen |-> seen]
    ELSE
      LET item == Head(items)
          row == extract_row(pl, item)
          st1 == [st EXCEPT !.items_seen = @ + 1]
          cid == row_id(pl, row)
      IN IF ~item.isdict
         THEN ClassifyPage_MissingIdKept(pl, Tail(items), existing, st, dr,
                                         seen)
         ELSE IF ~cid.ok
         THEN ClassifyPage_MissingIdKept(
                  pl, Tail(items), existing,
                  [st1 EXCEPT !.skipped_missing_id = @ + 1,
                              !.kept_delta = @ + 1],
                  Append(dr, row), FALSE)
         ELSE IF row_key(pl, row, cid.v) \in existing
         THEN ClassifyPage_MissingIdKept(
                  pl, Tail(items), existing,
                  [st1 EXCEPT !.skipped_existing = @ + 1], dr, seen)
         ELSE ClassifyPage_MissingIdKept(
                  pl, Tail(items), existing,
                  [st1 EXCEPT !.kept_delta = @ + 1], Append(dr, row), FALSE)

\* the loop counting an element that is not a mapping in items_seen
RECURSIVE ClassifyPage_CountsNonDict(_, _, _, _, _, _)
ClassifyPage_CountsNonDict(pl, items, existing, st, dr, seen) ==
    IF items = <<>> THEN [stats |-> st, delta_rows |-> dr, all_seen |-> seen]
    ELSE
      LET item == Head(items)
          row == extract_row(pl, item)
          st1 == [st EXCEPT !.items_seen = @ + 1]
          cid == row_id(pl, row)
      IN IF ~item.isdict
         THEN ClassifyPage_CountsNonDict(pl, Tail(items), existing, st1, dr,
                                         seen)
         ELSE IF ~cid.ok
         THEN ClassifyPage_CountsNonDict(
                  pl, Tail(items), existing,
                  [st1 EXCEPT !.skipped_missing_id = @ + 1], dr, FALSE)
         ELSE IF row_key(pl, row, cid.v) \in existing
         THEN ClassifyPage_CountsNonDict(
                  pl, Tail(items), existing,
                  [st1 EXCEPT !.skipped_existing = @ + 1], dr, seen)
         ELSE ClassifyPage_CountsNonDict(
                  pl, Tail(items), existing,
                  [st1 EXCEPT !.kept_delta = @ + 1], Append(dr, row), FALSE)

\* the "for item in items" loop: st = stats, dr = delta_rows,
\* seen = page_all_seen
RECURSIVE ClassifyPage(_, _, _, _, _, _)
ClassifyPage(pl, items, existing, st, dr, seen) ==
    IF items = <<>> THEN [stats |-> st, delta_rows |-> dr, all_seen |-> seen]
    ELSE
      LET item == Head(items)
          row == extract_row(pl, item)
          st1 == [st EXCEPT !.items_seen = @ + 1]
          cid == row_id(pl, row)
      IN IF ~item.isdict
         THEN ClassifyPage(pl, Tail(items), existing, st, dr, seen)
         ELSE IF ~cid.ok
         THEN ClassifyPage(pl, Tail(items), existing,
                           [st1 EXCEPT !.skipped_missing_id = @ + 1],
                           dr, FALSE)
         ELSE IF row_key(pl, row, cid.v) \in existing
         THEN ClassifyPage(pl, Tail(items), existing,
                           [st1 EXCEPT !.skipped_existing = @ + 1],
                           dr, seen)
         ELSE ClassifyPage(pl, Tail(items), existing,
                           [st1 EXCEPT !.kept_delta = @ + 1],
                           Append(dr, row), FALSE)

early_stop_inverted(stop, seen) == stop /\ ~seen

\* "if stop_when_page_all_seen and page_all_seen"
early_stop(stop, seen) == stop /\ seen

\* the page bound taken one page too late
over_max_pages_late(mp, p) == mp # 0 /\ p > mp + 1

\* "if cfg.max_pages and page > cfg.max_pages": 0 is no bound
over_max_pages(mp, p) == mp # 0 /\ p > mp

\* an empty page taken for a page with items
no_items_never(items) == FALSE

\* "if not items"
no_items(items) == items = <<>>

\* what fetch_page returns for page p: the listing ends with empty pages
PageItems(p) == IF p <= Len(source) THEN source[p] ELSE <<>>

\* "if cfg.max_pages and page > cfg.max_pages: break"
ScanPageLimit ==
    /\ pc = "scan"
    /\ over_max_pages(max_pages, page)
    /\ pc' = "scanned"
    /\ UNCHANGED <<remote, next_key, cfgVars, fbVars, prevVars, blVars, scVars, orchVars,
                   keyVars,
                   second, oplog>>

\* one iteration that also adds the keys of the rows it kept to the
\* existing-key set
FetchPage_AddsKeys ==
    /\ pc = "scan"
    /\ ~over_max_pages(max_pages, page)
    /\ LET items == PageItems(page)
           st0 == [stats EXCEPT !.pages_fetched = @ + 1]
           r == ClassifyPage(pipeline, items, existing_keys, st0,
                             delta_rows, TRUE)
       IN /\ fetched' = Append(fetched, items)
          /\ existing_keys' = existing_keys \cup
                 {row_key(pipeline, r.delta_rows[i],
                          row_id(pipeline, r.delta_rows[i]).v) :
                      i \in 1..Len(r.delta_rows)}
          /\ IF no_items(items)
             THEN /\ stats' = st0
                  /\ pc' = "scanned"
                  /\ UNCHANGED <<delta_rows, page, last_all_seen>>
             ELSE /\ delta_rows' = r.delta_rows
                  /\ last_all_seen' = r.all_seen
                  /\ IF early_stop(stop_when_page_all_seen, r.all_seen)
                     THEN /\ stats' = [r.stats EXCEPT
                                          !.early_stop_all_seen_page = 1]
                          /\ pc' = "scanned"
                          /\ page' = page
                     ELSE /\ stats' = r.stats
                          /\ pc' = "scan"
                          /\ page' = page + 1
    /\ oplog' = Append(oplog, "fetch")
    /\ UNCHANGED <<remote, next_key, cfgVars, fbVars, prevVars, raw,
                   expired_keys, del_i, del_log, expired_deleted, cleaned,
                   orchVars, keyVars,
                   second>>

\* one iteration of "while True": fetch a page, classify it, decide
FetchPage ==
    /\ pc = "scan"
    /\ ~over_max_pages(max_pages, page)
    /\ LET items == PageItems(page)
           st0 == [stats EXCEPT !.pages_fetched = @ + 1]
           r == ClassifyPage(pipeline, items, existing_keys, st0,
                             delta_rows, TRUE)
       IN /\ fetched' = Append(fetched, items)
          /\ IF no_items(items)
             THEN /\ stats' = st0
                  /\ pc' = "scanned"
                  /\ UNCHANGED <<delta_rows, page, last_all_seen>>
             ELSE /\ delta_rows' = r.delta_rows
                  /\ last_all_seen' = r.all_seen
                  /\ IF early_stop(stop_when_page_all_seen, r.all_seen)
                     THEN /\ stats' = [r.stats EXCEPT
                                          !.early_stop_all_seen_page = 1]
                          /\ pc' = "scanned"
                          /\ page' = page
                     ELSE /\ stats' = r.stats
                          /\ pc' = "scan"
                          /\ page' = page + 1
    /\ oplog' = Append(oplog, "fetch")
    /\ UNCHANGED <<remote, next_key, cfgVars, fbVars, prevVars, blVars, orchVars, keyVars,
                   second>>

-----------------------------------------------------------------------------
(* Bounded inputs                                                          *)

MaxItems == 2     \* items on one page of the listing
MaxPages == 2     \* non-empty pages of the listing
MaxInit == 2      \* records in the collection before the first run

JobStr == PyStr(<<"J", "o", "b">>)
\* end_date of an item: the last and the first day, with a time of day
LateDate == PyStr(<<DateTok(MaxDay), "T">>)
EarlyDate == PyStr(<<DateTok(0), "T">>)

\* sequences over S of length lo..hi
SeqsOf(S, lo, hi) == UNION {[1..n -> S] : n \in lo..hi}

\* items of the listing used by the scans: a typed item, an item without a
\* type and an item without id
KeyedItems ==
    {Item(PyInt(1), JobStr, LateDate), Item(PyInt(2), PyStr(<<>>), LateDate),
     Item(PyNone, JobStr, LateDate)}

\* pages of the listing: up to MaxItems items, or a page with an element
\* that is not a mapping
ScanPages ==
    SeqsOf(KeyedItems, 1, MaxItems)
    \cup {<<NonDictItem>>, <<Item(PyInt(1), JobStr, LateDate), NonDictItem>>}

ScanKeys ==
    {<<"u", "n", "s", "t", "o", "p", ":", "j", "o", "b", ":", "1">>, <<"u", "n", "s", "t", "o", "p", ":", "unknown_type", ":", "2">>}

ScanSources == SeqsOf(ScanPages, 0, MaxPages)

\* deadline values of stored records
Deadlines ==
    {PyNone, PyStr(<<>>), PyStr(<<"x", "x">>), PyStr(<<"x", DateTok(0)>>)}
    \cup {PyStr(<<DateTok(d)>>) : d \in Days}
    \cup {PyStr(<<" ", DateTok(0), "T">>), PyStr(<<ShortDateTok(0)>>)}

\* stored records the baseline is checked on
BaseRecords ==
    {Rec(PyStr(Unstop), JobStr, PyInt(1), d) : d \in Deadlines}
    \cup {Rec(PyStr(Unstop), PyStr(<<>>), PyInt(2), d) : d \in Deadlines}
    \cup {Rec(PyStr(Unstop), JobStr, PyNone, d) : d \in Deadlines}
    \cup {[Rec(PyNone, PyNone, PyNone, PyNone) EXCEPT !.isdict = FALSE]}

\* the collections with push keys 1..n holding the records of a sequence
Collections(S) == SeqsOf(S, 0, MaxInit)

-----------------------------------------------------------------------------
(* SpecBaseline: snapshot_prune_delete_and_save on a bounded collection    *)

BaselineInit ==
    /\ pipeline \in Pipelines
    /\ today \in Days
    /\ \E c \in Collections(BaseRecords) :
          /\ remote = [k \in 1..Len(c) |-> c[k]]
          /\ next_key = Len(c) + 1
    /\ source = <<>>
    /\ max_pages = 0
    /\ stop_when_page_all_seen = TRUE
    /\ pc = "start"
    /\ node_kind = "dict"
    /\ second = NoSecond
    /\ kin = NoKeyIn /\ kout = NoKeyOut
    /\ BaselineIdle /\ ScanIdle /\ OrchIdle /\ ProcessIdle

BaselineNext == BaselineStart \/ DeleteOk \/ DeleteFail \/ BaselineFinish

SpecBaseline == BaselineInit /\ [][BaselineNext]_vars

-----------------------------------------------------------------------------
(* SpecBaselineTwice: snapshot_prune_delete_and_save called twice in a row   *)
(* SpecBaselineShared: one call while another client writes to the node    *)

MaxOther == 1     \* pushes of the other client

\* stored records these two start from: one per day, and one without
\* deadline
PruneRecords ==
    {Rec(PyStr(Unstop), JobStr, PyInt(d + 1), PyStr(<<DateTok(d)>>)) :
        d \in Days}
    \cup {Rec(PyStr(Unstop), JobStr, PyInt(1), PyNone)}

PruneInit ==
    /\ pipeline \in Pipelines
    /\ today \in Days
    /\ \E c \in Collections(PruneRecords) :
          /\ remote = [k \in 1..Len(c) |-> c[k]]
          /\ next_key = Len(c) + 1
    /\ source = <<>>
    /\ max_pages = 0
    /\ stop_when_page_all_seen = TRUE
    /\ pc = "start"
    /\ node_kind = "dict"
    /\ second = NoSecond
    /\ kin = NoKeyIn /\ kout = NoKeyOut
    /\ BaselineIdle /\ ScanIdle /\ OrchIdle /\ ProcessIdle

\* the caller keeps the result and calls snapshot_prune_delete_and_save
\* again: nothing else touched the collection, today is the same
BaselineAgain ==
    /\ pc = "baselined"
    /\ ~prev_baseline.called
    /\ prev_baseline' = [called |-> TRUE, existing_keys |-> existing_keys,
                         del_log |-> del_log]
    /\ raw' = <<>> /\ expired_keys' = <<>> /\ del_i' = 1 /\ del_log' = <<>>
    /\ expired_deleted' = 0 /\ cleaned' = <<>> /\ existing_keys' = {}
    /\ pc' = "start"
    /\ UNCHANGED <<remote, next_key, cfgVars, fbVars, scVars, orchVars,
                   keyVars,
                   second, oplog>>

BaselineTwiceNext == BaselineNext \/ BaselineAgain

SpecBaselineTwice == PruneInit /\ [][BaselineTwiceNext]_vars

\* what ref.get() can find at the node
NodeKinds == {"dict", "list", "scalar"}

\* SpecBaselineNode: one call on a node that holds a mapping, a list of
\* records, a scalar, or nothing
NodeInit ==
    /\ pipeline \in Pipelines
    /\ today \in Days
    /\ node_kind \in NodeKinds
    /\ \E c \in Collections(PruneRecords) :
          /\ node_kind = "scalar" => c = <<>>
          /\ remote = [k \in 1..Len(c) |-> c[k]]
          /\ next_key = Len(c) + 1
    /\ source = <<>>
    /\ max_pages = 0
    /\ stop_when_page_all_seen = TRUE
    /\ pc = "start"
    /\ second = NoSecond
    /\ kin = NoKeyIn /\ kout = NoKeyOut
    /\ BaselineIdle /\ ScanIdle /\ OrchIdle /\ ProcessIdle

SpecBaselineNode == NodeInit /\ [][BaselineNext]_vars

\* what the other client pushes: a record whose deadline is the first day
OtherRows == {Rec(PyStr(Unstop), JobStr, PyInt(MaxId), PyStr(<<DateTok(0)>>))}

\* between the two ref.get() of the call, another client of the node (a
\* second request served at the same time) pushes a record
OtherPush ==
    /\ pc = "prune"
    /\ next_key <= MaxInit + MaxOther
    /\ \E r \in OtherRows : remote' = With(remote, next_key, r)
    /\ next_key' = next_key + 1
    /\ UNCHANGED <<pc, cfgVars, fbVars, prevVars, blVars, scVars, orchVars,
                   keyVars,
                   second, oplog>>

\* between the two ref.get() of the call, another client deletes a record
OtherDelete ==
    /\ pc = "prune"
    /\ \E k \in DOMAIN remote : remote' = Without(remote, k)
    /\ UNCHANGED <<next_key, pc, cfgVars, fbVars, prevVars, blVars, scVars,
                   orchVars, keyVars,
                   second, oplog>>

BaselineSharedNext == BaselineNext \/ OtherPush \/ OtherDelete

SpecBaselineShared == PruneInit /\ [][BaselineSharedNext]_vars

-----------------------------------------------------------------------------
(* SpecScan: scrape_jobs / scrape_competitions on a bounded listing        *)

ScanInit ==
    /\ pipeline \in Pipelines
    /\ existing_keys \in SUBSET ScanKeys
    /\ source \in ScanSources
    /\ max_pages \in 0..MaxPages
    /\ stop_when_page_all_seen \in BOOLEAN
    /\ pc = "scan"
    /\ node_kind = "dict"
    /\ second = NoSecond
    /\ today = 0
    /\ remote = EmptyMap
    /\ next_key = 1
    /\ raw = <<>> /\ expired_keys = <<>> /\ del_i = 1 /\ del_log = <<>>
    /\ expired_deleted = 0 /\ cleaned = <<>>
    /\ kin = NoKeyIn /\ kout = NoKeyOut
    /\ ScanIdle /\ OrchIdle /\ ProcessIdle

ScanNext == ScanPageLimit \/ FetchPage

SpecScan == ScanInit /\ [][ScanNext]_vars

-----------------------------------------------------------------------------
(* Sync Orchestrator: job() and competitions() behind their endpoints      *)
(* (app/services/*.py, app/api/v1/*.py)                                    *)

DEFAULT_MAX_PAGES == 1
DEFAULT_SOURCES == <<"unstop">>
MaxRuns == 2

\* the keys of the registry dict of job() and competitions()
registry == {"unstop"}

\* the endpoint: "return job()" / "return competitions()" answers 200 with
\* the report, "except Exception as e" answers HTTPException(500, str(e))
status_code == IF failure # "" THEN 500 ELSE IF pc = "done" THEN 200 ELSE 0
detail == failure

\* the first or the second ref.get() raises: the exception leaves
\* snapshot_prune_delete_and_save and the orchestrator
BaselineError ==
    /\ \/ pc = "start"
       \/ pc = "prune" /\ del_i > Len(expired_keys)
    /\ pc' = "failed"
    /\ failure' = "baseline"
    /\ oplog' = oplog \o (IF pc = "start" THEN <<"unlink_latest", "get">>
                           ELSE <<"get">>)
    /\ UNCHANGED <<remote, next_key, cfgVars, fbVars, prevVars, blVars, scVars, all_delta_rows,
                   uploaded, report, run, push_log, keyVars,
                   second>>

\* the extractor called while the baseline step is still pruning
CallExtractor_Early ==
    /\ pc \in {"prune", "baselined"}
    /\ pipeline = "competitions"
    /\ DEFAULT_SOURCES[1] \in registry
    /\ page' = 1
    /\ stats' = ZeroStats
    /\ delta_rows' = <<>>
    /\ fetched' = <<>>
    /\ last_all_seen' = FALSE
    /\ pc' = "scan"
    /\ UNCHANGED <<remote, next_key, cfgVars, fbVars, prevVars, blVars, orchVars, keyVars,
                   second, oplog>>

\* competitions(): registry["unstop"](per_page=, max_pages=,
\* existing_comp_keys=, stop_when_page_all_seen=True) enters the scan
CallExtractor ==
    /\ pc = "baselined"
    /\ pipeline = "competitions"
    /\ DEFAULT_SOURCES[1] \in registry
    /\ page' = 1
    /\ stats' = ZeroStats
    /\ delta_rows' = <<>>
    /\ fetched' = <<>>
    /\ last_all_seen' = FALSE
    /\ pc' = "scan"
    /\ UNCHANGED <<remote, next_key, cfgVars, fbVars, prevVars, blVars, orchVars, keyVars,
                   second, oplog>>

\* job(): registry["unstop"](..., existing_job_ids=existing_keys, ...) but
\* unstop() has no parameter existing_job_ids: the call raises TypeError
CallExtractorTypeError ==
    /\ pc = "baselined"
    /\ pipeline = "jobs"
    /\ DEFAULT_SOURCES[1] \in registry
    /\ pc' = "failed"
    /\ failure' = "TypeError"
    /\ UNCHANGED <<remote, next_key, cfgVars, fbVars, prevVars, blVars, scVars, all_delta_rows,
                   uploaded, report, run, push_log, keyVars,
                   second, oplog>>

\* the exception of fetch_page ends the scan with the rows collected
FetchError_Swallowed ==
    /\ pc = "scan"
    /\ ~over_max_pages(max_pages, page)
    /\ pc' = "scanned"
    /\ failure' = "fetch"
    /\ oplog' = Append(oplog, "fetch")
    /\ UNCHANGED <<remote, next_key, cfgVars, fbVars, prevVars, blVars,
                   scVars, all_delta_rows, uploaded, report, run, push_log,
                   keyVars,
                   second>>

\* fetch_page raises RuntimeError (status not 200, body not JSON)
FetchError ==
    /\ pc = "scan"
    /\ ~over_max_pages(max_pages, page)
    /\ pc' = "failed"
    /\ failure' = "fetch"
    /\ oplog' = Append(oplog, "fetch")
    /\ UNCHANGED <<remote, next_key, cfgVars, fbVars, prevVars, blVars, scVars, all_delta_rows,
                   uploaded, report, run, push_log, keyVars,
                   second>>

\* the extractor returns: all_delta_rows.extend(delta_rows), the files of
\* the source are written, the loop over DEFAULT_SOURCES ends and
\* upload_rows_push_keys begins with _init_firebase(), which finds the app
\* the baseline step cached
ExtendDelta ==
    /\ pc = "scanned"
    /\ all_delta_rows' = all_delta_rows \o delta_rows
    /\ uploaded' = 0
    /\ push_log' = <<>>
    /\ pc' = "upload"
    /\ firebase_app' = InitOf(pipeline).app
    /\ sdk_app' = InitOf(pipeline).sdk
    /\ init_log' = Append(init_log, InitEntry(pipeline, InitOf(pipeline)))
    /\ oplog' = oplog \o <<"unlink_extract", "write_extract">>
    /\ UNCHANGED <<remote, next_key, cfgVars, config_ok, prevVars, blVars, scVars, report, run,
                   failure, keyVars,
                   second>>

\* upload_rows_push_keys: ref.push(row) of the next row
PushRow ==
    /\ pc = "upload"
    /\ uploaded < Len(all_delta_rows)
    /\ remote' = With(remote, next_key, all_delta_rows[uploaded + 1])
    /\ next_key' = next_key + 1
    /\ uploaded' = uploaded + 1
    /\ push_log' = Append(push_log, <<all_delta_rows[uploaded + 1], TRUE,
                                      next_key>>)
    /\ oplog' = Append(oplog, "push")
    /\ UNCHANGED <<pc, cfgVars, fbVars, prevVars, blVars, scVars, all_delta_rows, report, run,
                   failure, keyVars,
                   second>>

\* upload_rows_push_keys: ref.push(row) raises
PushError ==
    /\ pc = "upload"
    /\ uploaded < Len(all_delta_rows)
    /\ pc' = "failed"
    /\ failure' = "push"
    /\ push_log' = Append(push_log, <<all_delta_rows[uploaded + 1], FALSE, 0>>)
    /\ oplog' = Append(oplog, "push")
    /\ UNCHANGED <<remote, next_key, cfgVars, fbVars, prevVars, blVars, scVars, all_delta_rows,
                   uploaded, report, run, keyVars,
                   second>>

\* "sample_keys: int = 5"
SAMPLE_KEYS == 5

\* the keys of the first SAMPLE_KEYS pushes of the upload
generated_keys_sample ==
    [i \in 1..(IF Len(push_log) < SAMPLE_KEYS THEN Len(push_log)
                ELSE SAMPLE_KEYS) |-> push_log[i][3]]

\* upload_rows_push_keys returns and the orchestrator returns the report
UploadReturn ==
    /\ pc = "upload"
    /\ uploaded = Len(all_delta_rows)
    /\ report' = Append(report,
           [run |-> run, ok |-> TRUE,
            expired_keys_count |-> expired_keys_count,
            expired_deleted_from_firebase |-> expired_deleted,
            kept_count_after_prune |-> kept_count,
            existing_keys_count |-> Cardinality(existing_keys),
            delta_total |-> Len(all_delta_rows),
            platform_stats |-> stats,
            uploaded |-> uploaded,
            generated_keys_sample |-> generated_keys_sample])
    /\ pc' = "done"
    /\ UNCHANGED <<remote, next_key, cfgVars, fbVars, prevVars, blVars, scVars, all_delta_rows,
                   uploaded, run, failure, push_log, keyVars,
                   second, oplog>>

\* the endpoint is requested again after the previous request ended
NextRun ==
    /\ pc \in {"done", "failed"}
    /\ run < MaxRuns
    /\ run' = run + 1
    /\ pc' = "start"
    /\ failure' = ""
    /\ all_delta_rows' = <<>>
    /\ uploaded' = 0
    /\ push_log' = <<>>
    /\ raw' = <<>> /\ expired_keys' = <<>> /\ del_i' = 1 /\ del_log' = <<>>
    /\ expired_deleted' = 0 /\ cleaned' = <<>> /\ existing_keys' = {}
    /\ page' = 1 /\ stats' = ZeroStats /\ delta_rows' = <<>>
    /\ fetched' = <<>> /\ last_all_seen' = FALSE
    /\ oplog' = <<>>
    /\ UNCHANGED <<remote, next_key, cfgVars, fbVars, prevVars, report, keyVars,
                   second>>

\* items of the listing used by the runs: a live item, an item whose
\* end_date is the first day, an item without id
RunItems ==
    {Item(PyInt(1), JobStr, LateDate), Item(PyInt(2), JobStr, EarlyDate),
     Item(PyNone, JobStr, LateDate)}

RunSources == SeqsOf(SeqsOf(RunItems, 1, MaxItems), 0, 1)

\* records stored before the first run: the live item as an earlier run
\* stored it, and a record whose deadline is the first day
RunRecords ==
    {Rec(PyStr(Unstop), JobStr, PyInt(1), PyStr(<<DateTok(MaxDay)>>)),
     Rec(PyStr(Unstop), JobStr, PyInt(3), PyStr(<<DateTok(0)>>))}

Init ==
    /\ pipeline \in Pipelines
    /\ today \in Days
    /\ \E c \in Collections(RunRecords) :
          /\ remote = [k \in 1..Len(c) |-> c[k]]
          /\ next_key = Len(c) + 1
    /\ source \in RunSources
    /\ max_pages = DEFAULT_MAX_PAGES
    /\ stop_when_page_all_seen = TRUE
    /\ pc = "start"
    /\ node_kind = "dict"
    /\ second = NoSecond
    /\ kin = NoKeyIn /\ kout = NoKeyOut
    /\ BaselineIdle /\ ScanIdle /\ OrchIdle
    /\ prev_baseline = NoPrev
    /\ firebase_app = NoApps
    /\ sdk_app = FALSE
    /\ config_ok \in BOOLEAN
    /\ init_log = <<>>

Next ==
    \/ BaselineStart \/ InitError \/ DeleteOk \/ DeleteFail \/ BaselineFinish
    \/ BaselineError
    \/ CallExtractor \/ CallExtractorTypeError
    \/ ScanPageLimit \/ FetchPage \/ FetchError
    \/ ExtendDelta \/ PushRow \/ PushError \/ UploadReturn
    \/ NextRun

Spec == Init /\ [][Next]_vars

-----------------------------------------------------------------------------
(* SpecTwoRuns: two requests of one endpoint served at the same time. The   *)
(* endpoints are plain "def" functions, which the framework runs in worker  *)
(* threads; nothing in the services serialises them. The first request is   *)
(* the run above; the locals of the second are the fields of "second". A    *)
(* step of either request is one call on the remote store; the scan of the  *)
(* second request touches no shared state and is one step.                  *)

\* scrape_jobs / scrape_competitions from page p on, as a function of the
\* listing: dr is the delta collected so far
RECURSIVE scrape(_, _, _, _, _, _)
scrape(pl, existing, mp, stop, p, dr) ==
    IF over_max_pages(mp, p) THEN dr
    ELSE LET items == PageItems(p)
             r == ClassifyPage(pl, items, existing, ZeroStats, dr, TRUE)
         IN IF no_items(items) THEN dr
            ELSE IF early_stop(stop, r.all_seen) THEN r.delta_rows
            ELSE scrape(pl, existing, mp, stop, p + 1, r.delta_rows)

\* second request: _init_firebase .. the first ref.get() and the expiry loop
SecondStart ==
    /\ second.pc = "start"
    /\ InitOf(pipeline).result = "ok"
    /\ firebase_app' = InitOf(pipeline).app
    /\ sdk_app' = InitOf(pipeline).sdk
    /\ init_log' = Append(init_log, InitEntry(pipeline, InitOf(pipeline)))
    /\ second' = [second EXCEPT
           !.pc = "prune",
           !.raw = ref_get,
           !.expired_keys = ExpiredOf(ref_get, KeysInOrder(DOMAIN ref_get),
                                      today)]
    /\ UNCHANGED <<remote, next_key, pc, cfgVars, config_ok, prevVars, blVars,
                   scVars, orchVars, keyVars, oplog>>

\* second request: ref.child(push_key).delete() succeeds (also when the
\* first request has deleted the record already)
SecondDeleteOk ==
    /\ second.pc = "prune"
    /\ second.del_i <= Len(second.expired_keys)
    /\ remote' = Without(remote, second.expired_keys[second.del_i])
    /\ second' = [second EXCEPT
           !.del_log = Append(@, <<second.expired_keys[second.del_i], TRUE>>),
           !.del_i = @ + 1]
    /\ UNCHANGED <<next_key, pc, cfgVars, fbVars, prevVars, blVars, scVars,
                   orchVars, keyVars, oplog>>

\* second request: ref.child(push_key).delete() raises
SecondDeleteFail ==
    /\ second.pc = "prune"
    /\ second.del_i <= Len(second.expired_keys)
    /\ second' = [second EXCEPT
           !.del_log = Append(@, <<second.expired_keys[second.del_i], FALSE>>),
           !.del_i = @ + 1]
    /\ UNCHANGED <<remote, next_key, pc, cfgVars, fbVars, prevVars, blVars,
                   scVars, orchVars, keyVars, oplog>>

\* second request: the second ref.get() and the key set
SecondFinish ==
    /\ second.pc = "prune"
    /\ second.del_i > Len(second.expired_keys)
    /\ second' = [second EXCEPT
           !.pc = "baselined",
           !.cleaned = ref_get,
           !.existing_keys = KeySetOf(pipeline, ref_get)]
    /\ UNCHANGED <<remote, next_key, pc, cfgVars, fbVars, prevVars, blVars,
                   scVars, orchVars, keyVars, oplog>>

\* second request of competitions(): the scan of the source returns
SecondScan ==
    /\ second.pc = "baselined"
    /\ pipeline = "competitions"
    /\ second' = [second EXCEPT
           !.pc = "upload",
           !.delta_rows = scrape(pipeline, second.existing_keys, max_pages,
                                 stop_when_page_all_seen, 1, <<>>)]
    /\ UNCHANGED <<remote, next_key, pc, cfgVars, fbVars, prevVars, blVars,
                   scVars, orchVars, keyVars, oplog>>

\* second request of job(): the extractor call raises TypeError
SecondTypeError ==
    /\ second.pc = "baselined"
    /\ pipeline = "jobs"
    /\ second' = [second EXCEPT !.pc = "failed"]
    /\ UNCHANGED <<remote, next_key, pc, cfgVars, fbVars, prevVars, blVars,
                   scVars, orchVars, keyVars, oplog>>

\* second request: ref.push(row) of its next row
SecondPush ==
    /\ second.pc = "upload"
    /\ second.uploaded < Len(second.delta_rows)
    /\ remote' = With(remote, next_key,
                      second.delta_rows[second.uploaded + 1])
    /\ next_key' = next_key + 1
    /\ second' = [second EXCEPT
           !.uploaded = @ + 1,
           !.push_log = Append(@, next_key)]
    /\ UNCHANGED <<pc, cfgVars, fbVars, prevVars, blVars, scVars, orchVars,
                   keyVars, oplog>>

\* second request: the upload returns and the report is answered
SecondReturn ==
    /\ second.pc = "upload"
    /\ second.uploaded = Len(second.delta_rows)
    /\ second' = [second EXCEPT !.pc = "done"]
    /\ UNCHANGED <<remote, next_key, pc, cfgVars, fbVars, prevVars, blVars,
                   scVars, orchVars, keyVars, oplog>>

MaxTwoInit == 1    \* records stored before the two requests
MaxTwoItems == 1   \* items on the page of the listing

TwoRunsInit ==
    /\ pipeline \in Pipelines
    /\ today \in Days
    /\ \E c \in SeqsOf(RunRecords, 0, MaxTwoInit) :
          /\ remote = [k \in 1..Len(c) |-> c[k]]
          /\ next_key = Len(c) + 1
    /\ source \in SeqsOf(SeqsOf(RunItems, 1, MaxTwoItems), 0, 1)
    /\ max_pages = DEFAULT_MAX_PAGES
    /\ stop_when_page_all_seen = TRUE
    /\ pc = "start"
    /\ node_kind = "dict"
    /\ second = [NoSecond EXCEPT !.pc = "start"]
    /\ kin = NoKeyIn /\ kout = NoKeyOut
    /\ BaselineIdle /\ ScanIdle /\ OrchIdle /\ ProcessIdle

TwoRunsNext ==
    \/ BaselineStart \/ DeleteOk \/ DeleteFail \/ BaselineFinish
    \/ CallExtractor \/ CallExtractorTypeError
    \/ ScanPageLimit \/ FetchPage
    \/ ExtendDelta \/ PushRow \/ UploadReturn
    \/ SecondStart \/ SecondDeleteOk \/ SecondDeleteFail \/ SecondFinish
    \/ SecondScan \/ SecondTypeError \/ SecondPush \/ SecondReturn

SpecTwoRuns == TwoRunsInit /\ [][TwoRunsNext]_vars

-----------------------------------------------------------------------------
(* SpecFirebase: the init functions called by the requests of one process  *)
(* (app/ops/firebase_client.py, app/ops/job_rtdb.py)                       *)

MaxInitCalls == 6

\* a step of a jobs request calls job_rtdb._init_firebase()
JobsInitCall ==
    /\ pc = "serving"
    /\ Len(init_log) < MaxInitCalls
    /\ LET r == InitOf("jobs")
       IN /\ firebase_app' = r.app
          /\ sdk_app' = r.sdk
          /\ init_log' = Append(init_log,
                 [module |-> "job_rtdb", result |-> r.result,
                  initialize_app |-> r.initialize_app])
    /\ pipeline' = "jobs"
    /\ UNCHANGED <<today, source, max_pages, stop_when_page_all_seen,
                   node_kind, remote, next_key, pc, config_ok, prevVars,
                   blVars, scVars, orchVars, keyVars,
                   second, oplog>>

\* a step of a competitions request calls competition_rtdb._init_firebase(),
\* which is firebase_client.init_firebase()
CompetitionsInitCall ==
    /\ pc = "serving"
    /\ Len(init_log) < MaxInitCalls
    /\ LET r == InitOf("competitions")
       IN /\ firebase_app' = r.app
          /\ sdk_app' = r.sdk
          /\ init_log' = Append(init_log,
                 [module |-> "firebase_client", result |-> r.result,
                  initialize_app |-> r.initialize_app])
    /\ pipeline' = "competitions"
    /\ UNCHANGED <<today, source, max_pages, stop_when_page_all_seen,
                   node_kind, remote, next_key, pc, config_ok, prevVars,
                   blVars, scVars, orchVars, keyVars,
                   second, oplog>>

FirebaseInit ==
    /\ pipeline = "competitions"
    /\ config_ok \in BOOLEAN
    /\ firebase_app = NoApps
    /\ sdk_app = FALSE
    /\ init_log = <<>>
    /\ prev_baseline = NoPrev
    /\ pc = "serving"
    /\ node_kind = "dict"
    /\ second = NoSecond
    /\ today = 0
    /\ remote = EmptyMap
    /\ next_key = 1
    /\ source = <<>>
    /\ max_pages = DEFAULT_MAX_PAGES
    /\ stop_when_page_all_seen = TRUE
    /\ kin = NoKeyIn /\ kout = NoKeyOut
    /\ BaselineIdle /\ ScanIdle /\ OrchIdle

FirebaseNext == JobsInitCall \/ CompetitionsInitCall

SpecFirebase == FirebaseInit /\ [][FirebaseNext]_vars

-----------------------------------------------------------------------------
(* Claims about the key builders (checked under SpecKey)                   *)

\* platform / item type as the key format prescribes: trimmed, lower-cased
NormField(x) == IF x.k = "none" THEN <<>> ELSE Lower(Strip(Str(x)))

\* "{platform}:{item_type}:{item_id}" with the two sentinels
ExpectedKey(platform, type, n) ==
    (IF NormField(platform) = <<>> THEN <<"unknown_platform">>
     ELSE NormField(platform))
    \o <<":">> \o
    (IF NormField(type) = <<>> THEN <<"unknown_type">> ELSE NormField(type))
    \o <<":">> \o <<ToString(n)>>

\* C8: every row the adapter keeps (its id coerces) gets, from the baseline
\* of a later run reading the stored row, the key the adapter computed.
C8_KeyStableWriterReader ==
    (pc = "keyed" /\ kout.scan_id.ok) => kout.stored_key = kout.scan_key

\* C9: every key builder, baseline side and adapter side, returns
\* "{platform}:{item_type}:{item_id}" with platform and type trimmed and
\* lower-cased and the sentinels for an empty or missing platform or type.
C9_KeyFormatEveryBuilder ==
    (pc = "keyed" /\ kout.scan_id.ok) =>
        /\ kout.base = ExpectedKey(kin.platform, kin.type, kout.scan_id.v)
        /\ kout.adapter = ExpectedKey(kin.platform, kin.type, kout.scan_id.v)

\* ids the claim names as accepted and as rejected
IntegerLikeId(x) == x.k = "int" \/ (x.k = "float" /\ ~x.half)
AbsentOrTextId(x) ==
    \/ x.k = "none"
    \/ x.k = "str" /\ (Strip(x.s) = <<>> \/ \E i \in 1..Len(x.s) : x.s[i] = "a")

\* C10: a builder returns a key iff the id coerces to an integer; integers
\* and integer-valued floats coerce, None / "" / text do not; the baseline
\* builder and the adapter's coercion function accept the same ids.
C10_KeyIffIdCoerces ==
    pc = "keyed" =>
        /\ (kout.base # NoKey) <=> kout.scan_id.ok
        /\ IntegerLikeId(kin.id) => kout.scan_id.ok
        /\ AbsentOrTextId(kin.id) => ~kout.scan_id.ok

-----------------------------------------------------------------------------
(* Claims about the baseline step (checked under SpecBaseline)             *)

\* a record of the first snapshot whose deadline parses to a day before today
ClaimExpired(rec) ==
    /\ rec.isdict
    /\ parse_deadline_yyyy_mm_dd(rec.deadline).ok
    /\ parse_deadline_yyyy_mm_dd(rec.deadline).day < today

ExpiredInRaw == {k \in DOMAIN raw : ClaimExpired(raw[k])}

DeletesIssuedFor(k) == {i \in 1..Len(del_log) : del_log[i][1] = k}

\* the push keys whose delete call succeeded
DeletedOk == {del_log[i][1] : i \in {j \in 1..Len(del_log) : del_log[j][2]}}

\* C1 as stated: whatever the delete calls do, after the call no expired
\* record of the first snapshot is in the collection, nor in the snapshot
\* the Existing-Key Set is derived from.
C1_ExpiredAlwaysGone ==
    pc = "baselined" =>
        \A k \in ExpiredInRaw : k \notin DOMAIN remote /\ k \notin DOMAIN cleaned

\* C1 amended: exactly one delete is issued for every expired record; a
\* record whose delete succeeded is gone from the collection and from the
\* snapshot the key set is derived from, a record whose delete failed is
\* still there; the Existing-Key Set is the key set of the records left;
\* hence when every delete succeeds only non-expired records are left.
C1_ExpiredGoneWhenDeleteSucceeds ==
    pc = "baselined" =>
        /\ \A k \in ExpiredInRaw :
              /\ Cardinality(DeletesIssuedFor(k)) = 1
              /\ \A i \in DeletesIssuedFor(k) :
                    IF del_log[i][2]
                    THEN k \notin DOMAIN remote /\ k \notin DOMAIN cleaned
                    ELSE k \in DOMAIN cleaned
        /\ \A k \in DOMAIN raw \ ExpiredInRaw : k \in DOMAIN cleaned
        /\ existing_keys =
              {baseline_key(pipeline, cleaned[k]) :
                  k \in {x \in DOMAIN cleaned : cleaned[x].isdict}} \ {NoKey}
        /\ (\A i \in 1..Len(del_log) : del_log[i][2]) =>
              \A k \in DOMAIN remote : ~ClaimExpired(remote[k])

\* C1 witness: a baseline that found two expired records, deleted one and
\* failed to delete the other
C1_Witness ==
    /\ pc = "baselined"
    /\ Cardinality(ExpiredInRaw) >= 2
    /\ \E i, j \in 1..Len(del_log) : del_log[i][2] /\ ~del_log[j][2]

\* a record without deadline: the field is absent, empty, or its text does
\* not start with a date
ClaimNoDeadline(rec) ==
    /\ rec.isdict
    /\ \/ rec.deadline.k = "none"
       \/ /\ rec.deadline.k = "str"
          /\ LET txt == Strip(rec.deadline.s)
             IN txt = <<>> \/ ~IsDateTok(Head(txt))

\* C12: a record whose deadline is absent, empty or unparseable is never
\* deleted by the call, and its composite key, when it has one, is in the
\* returned Existing-Key Set.
C12_NoDeadlineRecordsKept ==
    \A k \in DOMAIN raw :
        ClaimNoDeadline(raw[k]) =>
            /\ DeletesIssuedFor(k) = {}
            /\ k \in DOMAIN remote
            /\ pc = "baselined" =>
                  /\ k \in DOMAIN cleaned
                  /\ baseline_key(pipeline, raw[k]) # NoKey =>
                        baseline_key(pipeline, raw[k]) \in existing_keys

\* C12 witness: a call that deleted an expired record and kept a keyed
\* record whose deadline text is no date
C12_Witness ==
    /\ pc = "baselined"
    /\ \E i \in 1..Len(del_log) : del_log[i][2]
    /\ \E k \in DOMAIN raw :
          /\ ClaimNoDeadline(raw[k])
          /\ raw[k].deadline.k = "str" /\ raw[k].deadline.s # <<>>
          /\ baseline_key(pipeline, raw[k]) \in existing_keys

\* a record whose deadline parses to today or to a later day
ClaimNotYetExpired(rec) ==
    /\ rec.isdict
    /\ parse_deadline_yyyy_mm_dd(rec.deadline).ok
    /\ parse_deadline_yyyy_mm_dd(rec.deadline).day >= today

\* C13: the records selected for deletion are exactly those whose parsed
\* deadline is strictly before today; a record whose deadline is today or
\* later is never deleted; deletes are issued only for selected keys.
C13_SelectedIffStrictlyBeforeToday ==
    pc \in {"prune", "baselined"} =>
        /\ {expired_keys[i] : i \in 1..Len(expired_keys)} = ExpiredInRaw
        /\ \A i \in 1..Len(del_log) : del_log[i][1] \in ExpiredInRaw
        /\ \A k \in DOMAIN raw :
              ClaimNotYetExpired(raw[k]) =>
                  DeletesIssuedFor(k) = {} /\ k \in DOMAIN remote

\* C13 witness: a call that deleted yesterday's record and left the record
\* whose deadline is today
C13_Witness ==
    /\ pc = "baselined"
    /\ \E k \in ExpiredInRaw : k \notin DOMAIN cleaned
    /\ \E k \in DOMAIN cleaned :
          /\ cleaned[k].isdict
          /\ parse_deadline_yyyy_mm_dd(cleaned[k].deadline) = SomeDate(today)

\* the push keys of the deletes issued, in the order of the calls
DeleteOrder == [i \in 1..Len(del_log) |-> del_log[i][1]]

\* C19: each expired key is attempted once, in order, whether earlier
\* deletes failed or not; none is retried; expired_deleted_from_firebase
\* counts the deletes that succeeded, so it lies between 0 and
\* expired_keys_count and equals it exactly when no delete failed.
C19_DeletesBestEffortOncePerKey ==
    /\ pc = "prune" => DeleteOrder = SubSeq(expired_keys, 1, del_i - 1)
    /\ pc = "baselined" => DeleteOrder = expired_keys
    /\ pc \in {"prune", "baselined"} =>
          /\ expired_deleted = Cardinality(DeletedOk)
          /\ 0 <= expired_deleted /\ expired_deleted <= expired_keys_count
          /\ pc = "baselined" =>
                ((expired_deleted = expired_keys_count)
                    <=> \A i \in 1..Len(del_log) : del_log[i][2])

\* C19 witness: the first of two deletes failed, the second succeeded
C19_Witness ==
    /\ pc = "baselined"
    /\ Len(del_log) = 2
    /\ ~del_log[1][2] /\ del_log[2][2]
    /\ expired_deleted = 1 /\ expired_keys_count = 2

\* C11: the records the keys are derived from are the records that were
\* judged for expiry, less those the call deleted: one snapshot serves
\* both, whatever another client does to the collection meanwhile.
C11_ExpiryAndKeysFromOneSnapshot ==
    pc = "baselined" =>
        /\ DOMAIN cleaned = DOMAIN raw \ DeletedOk
        /\ \A k \in DOMAIN cleaned : cleaned[k] = raw[k]

\* C14 as stated: the second of two calls in a row returns an
\* Existing-Key Set of the size of the first call's.
C14_SecondCallSameSize ==
    (pc = "baselined" /\ prev_baseline.called) =>
        Cardinality(existing_keys) = Cardinality(prev_baseline.existing_keys)

\* every delete of the first call succeeded
PrevPruneClean ==
    \A i \in 1..Len(prev_baseline.del_log) : prev_baseline.del_log[i][2]

\* C14 amended: the second call never returns a key the first did not
\* return; when every delete of the first call succeeded, the second call
\* finds no expired record, issues no delete and returns the same set.
C14_SecondCallSameSetAfterCleanPrune ==
    (pc = "baselined" /\ prev_baseline.called) =>
        /\ existing_keys \subseteq prev_baseline.existing_keys
        /\ PrevPruneClean =>
              /\ expired_keys = <<>> /\ del_log = <<>>
              /\ existing_keys = prev_baseline.existing_keys

\* C14 witness: the first call deleted an expired record, the second call
\* returned a non-empty set
C14_Witness ==
    /\ pc = "baselined" /\ prev_baseline.called
    /\ prev_baseline.del_log # <<>> /\ PrevPruneClean
    /\ existing_keys # {}

-----------------------------------------------------------------------------
(* Claims about a scan (checked under SpecScan)                            *)

RECURSIVE Flatten(_)
Flatten(pages) ==
    IF pages = <<>> THEN <<>> ELSE Head(pages) \o Flatten(Tail(pages))

\* the item is a mapping whose id is an integer
ClaimHasId(item) == item.isdict /\ item.id.k = "int"

\* the composite key of an item of the listing
ClaimKey(item) == ExpectedKey(PyStr(Unstop), item.type, item.id.n)

ClaimIsNew(item) == ClaimHasId(item) /\ ClaimKey(item) \notin existing_keys
ClaimIsExisting(item) == ClaimHasId(item) /\ ClaimKey(item) \in existing_keys
ClaimIsIdMissing(item) == item.isdict /\ ~ClaimHasId(item)

NewItemsOf(items) == SelectSeq(items, ClaimIsNew)
ExistingItemsOf(items) == SelectSeq(items, ClaimIsExisting)
IdMissingItemsOf(items) == SelectSeq(items, ClaimIsIdMissing)

RowsOf(items) == [i \in 1..Len(items) |-> extract_row(pipeline, items[i])]

InScan == pc \in {"scan", "scanned"}

\* C3: the delta is, in page order and item order, the rows of the scanned
\* items that have an integer id and whose key is not in the existing-key
\* set; skipped_existing counts the scanned items whose key is in the set
\* and kept_delta counts the delta rows.
C3_DeltaIsNewItemsInOrder ==
    InScan =>
        /\ delta_rows = RowsOf(NewItemsOf(Flatten(fetched)))
        /\ stats.skipped_existing = Len(ExistingItemsOf(Flatten(fetched)))
        /\ stats.kept_delta = Len(delta_rows)

\* C3 witness: a returned scan with early stop enabled whose first page held
\* an existing item followed by a new one: one skipped, delta kept, flag 0
C3_Witness ==
    /\ pc = "scanned"
    /\ stop_when_page_all_seen
    /\ Len(fetched) >= 1 /\ Len(fetched[1]) = 2
    /\ ClaimIsExisting(fetched[1][1]) /\ ClaimIsNew(fetched[1][2])
    /\ stats.skipped_existing = 1 /\ stats.kept_delta >= 1
    /\ stats.early_stop_all_seen_page = 0

\* every element of the page is an item classified as already existing
ClaimFullySeen(items) ==
    items # <<>> /\ \A i \in 1..Len(items) : ClaimIsExisting(items[i])

LastFetched == fetched[Len(fetched)]

\* C4: with stop_when_page_all_seen, the fetch of a fully seen page ends
\* the scan with the flag set and the delta unchanged, and a scan that has
\* ended fetches no further page.
C4_EarlyStopOnFullySeenPage ==
    [][/\ (/\ pc = "scan"
           /\ fetched' # fetched
           /\ stop_when_page_all_seen
           /\ ClaimFullySeen(fetched'[Len(fetched')]))
          => /\ pc' = "scanned"
             /\ delta_rows' = delta_rows
             /\ stats'.early_stop_all_seen_page = 1
             /\ stats'.pages_fetched = Len(fetched')
       /\ pc = "scanned" => fetched' = fetched]_vars

\* C4 witness: a scan stopped by a fully seen page while the listing had a
\* further page that max_pages allowed
C4_Witness ==
    /\ pc = "scanned"
    /\ stats.early_stop_all_seen_page = 1
    /\ ClaimFullySeen(LastFetched)
    /\ Len(source) > Len(fetched)
    /\ (max_pages = 0 \/ max_pages > Len(fetched))

ClaimHasNewOrIdMissing(items) ==
    \E i \in 1..Len(items) : ClaimIsNew(items[i]) \/ ClaimIsIdMissing(items[i])

\* C5 as stated: after any fetched page with a new or id-less item a next
\* page is fetched and the flag the scan returns is 0.
C5_NextPageFetchedAndFlagZero ==
    pc = "scanned" =>
        \A i \in 1..Len(fetched) :
            ClaimHasNewOrIdMissing(fetched[i]) =>
                Len(fetched) > i /\ stats.early_stop_all_seen_page = 0

\* C5 amended: a fetched page with a new or id-less item does not end the
\* scan and does not set the flag: the scan goes on to page + 1 (which it
\* fetches unless max_pages is nonzero and page + 1 exceeds it); the flag
\* is set only by the fetch of a later page that has no such item.
C5_PageWithNewItemContinues ==
    [][/\ (/\ pc = "scan"
           /\ fetched' # fetched
           /\ ClaimHasNewOrIdMissing(fetched'[Len(fetched')]))
          => /\ pc' = "scan"
             /\ page' = page + 1
             /\ stats'.early_stop_all_seen_page = 0
       /\ (/\ InScan
           /\ stats.early_stop_all_seen_page = 0
           /\ stats'.early_stop_all_seen_page = 1)
          => /\ fetched' # fetched
             /\ ~ClaimHasNewOrIdMissing(fetched'[Len(fetched')])]_vars

\* C5 witness: a page with a new item was fetched, then the next page was
\* fetched and stopped the scan early
C5_Witness ==
    /\ pc = "scanned"
    /\ Len(fetched) >= 2
    /\ ClaimHasNewOrIdMissing(fetched[1])
    /\ stats.early_stop_all_seen_page = 1

\* C6: rows without an integer id are counted once each in
\* skipped_missing_id, are in no other counter, are never in the delta, and
\* a page holding one never stops the scan as fully seen.
C6_IdMissingRowsOnlyCounted ==
    InScan =>
        /\ stats.skipped_missing_id = Len(IdMissingItemsOf(Flatten(fetched)))
        /\ stats.skipped_existing + stats.kept_delta
              = Len(SelectSeq(Flatten(fetched), ClaimHasId))
        /\ \A i \in 1..Len(delta_rows) : delta_rows[i].id.k = "int"
        /\ stats.early_stop_all_seen_page = 1 =>
              IdMissingItemsOf(LastFetched) = <<>>

\* C6 witness: a page holding only existing items and one id-less item was
\* fetched with early stop enabled, and the scan went on to the next page
C6_Witness ==
    /\ InScan
    /\ stop_when_page_all_seen
    /\ Len(fetched) >= 2
    /\ IdMissingItemsOf(fetched[1]) # <<>>
    /\ ExistingItemsOf(fetched[1]) # <<>>
    /\ NewItemsOf(fetched[1]) = <<>>
    /\ stats.skipped_missing_id >= 1

\* C15: with max_pages nonzero the scan never fetches more than max_pages
\* pages, and it ends: every iteration either ends the scan or fetches one
\* page and moves to the next, and the page counter never passes
\* max_pages + 1.  With max_pages = 0 the scan ends only in an iteration
\* that fetched an empty page or stopped early.
C15_MaxPagesBoundsTheScan ==
    [][/\ max_pages # 0 =>
             /\ stats'.pages_fetched <= max_pages
             /\ Len(fetched') <= max_pages
             /\ page' <= max_pages + 1
       /\ (pc = "scan" /\ pc' = "scan") =>
             /\ page' = page + 1
             /\ stats'.pages_fetched = stats.pages_fetched + 1
       /\ (max_pages = 0 /\ pc = "scan" /\ pc' = "scanned") =>
             /\ Len(fetched') = Len(fetched) + 1
             /\ \/ fetched'[Len(fetched')] = <<>>
                \/ stats'.early_stop_all_seen_page = 1]_vars

\* C15 witness: max_pages ended a scan whose pages all had new items and
\* whose listing had a further page
C15_Witness ==
    /\ pc = "scanned"
    /\ max_pages # 0
    /\ stats.pages_fetched = max_pages
    /\ Len(source) > max_pages
    /\ stats.early_stop_all_seen_page = 0
    /\ \A i \in 1..Len(fetched) : NewItemsOf(fetched[i]) # <<>>

\* C16: the iteration that fetches a page without items ends the scan and
\* changes neither the delta nor the item counters nor the early-stop
\* flag; a scan that has ended fetches nothing.
C16_EmptyPageEndsScan ==
    [][/\ (/\ pc = "scan"
           /\ fetched' # fetched
           /\ fetched'[Len(fetched')] = <<>>)
          => /\ pc' = "scanned"
             /\ delta_rows' = delta_rows
             /\ stats'.items_seen = stats.items_seen
             /\ stats'.kept_delta = stats.kept_delta
             /\ stats'.skipped_existing = stats.skipped_existing
             /\ stats'.skipped_missing_id = stats.skipped_missing_id
             /\ stats'.early_stop_all_seen_page = 0
       /\ (pc = "scanned" /\ fetched # <<>> /\ LastFetched = <<>>)
          => fetched' = fetched /\ stats' = stats]_vars

\* C16 witness: early stop enabled, a page with a new item, then the empty
\* page that ended the scan
C16_Witness ==
    /\ pc = "scanned"
    /\ stop_when_page_all_seen
    /\ Len(fetched) >= 2
    /\ LastFetched = <<>>
    /\ delta_rows # <<>>
    /\ stats.early_stop_all_seen_page = 0

-----------------------------------------------------------------------------
(* Claims about whole runs (checked under Spec)                            *)

\* C2: a run that follows a completed run (same listing, same today, no
\* other writer) has an empty delta.
C2_SecondRunDeltaEmpty ==
    (/\ pc \in {"upload", "done"}
     /\ \E i \in 1..Len(report) : report[i].run = run - 1)
        => all_delta_rows = <<>>

\* C7: in both orchestrators a run whose baseline step and page fetches
\* succeed reaches the upload step: a run aborts only on an error of the
\* baseline step, of a page fetch or of a push.
C7_RunReachesUpload ==
    pc = "failed" => failure \in {"init", "baseline", "fetch", "push"}

\* the upload step is running, has returned, or was left by a failed push
InUpload == pc \in {"upload", "done"} \/ (pc = "failed" /\ failure = "push")

\* the run in progress has returned a report
Reported == \E i \in 1..Len(report) : report[i].run = run

C18_ErrorAbortsRun ==
    [][/\ (failure' # "") <=> (pc' = "failed")
       /\ pc' = "failed" =>
             /\ status_code' = 500
             /\ detail' \in {"init", "baseline", "TypeError", "fetch", "push"}
             /\ ~Reported'
       /\ (pc # "failed" /\ pc' = "failed") =>
             /\ remote' = remote /\ report' = report
       /\ pc = "failed" =>
             /\ pc' = "start" /\ run' = run + 1
             /\ remote' = remote /\ report' = report]_vars

\* C18 witness: a page fetch failed after the baseline step had deleted a
\* record; the request ended without report
C18_Witness ==
    /\ pc = "failed" /\ failure = "fetch"
    /\ expired_deleted >= 1
    /\ status_code = 500
    /\ ~Reported

-----------------------------------------------------------------------------
(* Claims about the init functions (checked under SpecFirebase)            *)

\* the calls that invoked firebase_admin.initialize_app
InitializeAppCalls == {i \in 1..Len(init_log) : init_log[i].initialize_app}

\* C20: with a valid configuration, whatever the order and number of jobs
\* and competitions requests of the process, every call of an init function
\* succeeds and firebase_admin.initialize_app is invoked at most once.
C20_InitOnceSafeAcrossModules ==
    config_ok =>
        /\ \A i \in 1..Len(init_log) : init_log[i].result = "ok"
        /\ Cardinality(InitializeAppCalls) <= 1

\* C26: at every point of a scan, items_seen is the sum of kept_delta,
\* skipped_existing and skipped_missing_id, kept_delta is the length of the
\* delta list, and pages_fetched is the number of page fetches performed,
\* the final empty page included.
C26_CounterAccounting ==
    InScan =>
        /\ stats.items_seen = stats.kept_delta + stats.skipped_existing
                                + stats.skipped_missing_id
        /\ stats.kept_delta = Len(delta_rows)
        /\ stats.pages_fetched = Len(fetched)

\* a scan that counted an item of each class, met an element that is not
\* a mapping, and ended on an empty page
C26_Witness ==
    /\ pc = "scanned"
    /\ Len(fetched) >= 2 /\ LastFetched = <<>>
    /\ stats.kept_delta >= 1 /\ stats.skipped_existing >= 1
    /\ stats.skipped_missing_id >= 1
    /\ Len(Flatten(fetched)) > stats.items_seen

\* the composite key the adapter computed for a kept row
ClaimRowKey(row) == row_key(pipeline, row, row_id(pipeline, row).v)

\* C27: the delta rows collected by a scan have pairwise distinct composite
\* keys, also when the listing returns the same item twice.
C27_DeltaKeysPairwiseDistinct ==
    InScan =>
        \A i, j \in 1..Len(delta_rows) :
            i # j => ClaimRowKey(delta_rows[i]) # ClaimRowKey(delta_rows[j])

\* C28: the early-stop flag is set only when the last fetched page has at
\* least one item and every element of it was counted in skipped_existing;
\* a page of elements that are not mappings does not set it.
C28_EarlyStopOnlyOnCountedPage ==
    (pc = "scanned" /\ stats.early_stop_all_seen_page = 1) =>
        ClaimFullySeen(LastFetched)

\* C30: when a run has returned its report and every delete of its baseline
\* step succeeded, no record of the collection has a deadline before the
\* run's today.
C30_NoExpiredRecordAfterRun ==
    (pc = "done" /\ \A i \in 1..Len(del_log) : del_log[i][2]) =>
        \A k \in DOMAIN remote : ~ClaimExpired(remote[k])

\* the report of the run before the run in progress
HasPrevReport == \E i \in 1..Len(report) : report[i].run = run - 1
PrevReport == report[CHOOSE i \in 1..Len(report) : report[i].run = run - 1]

\* the push keys of the rows the previous run uploaded
PrevUploadedKeys ==
    {PrevReport.generated_keys_sample[i] :
        i \in 1..Len(PrevReport.generated_keys_sample)}

\* C24 as stated: a run executed again after a run whose upload succeeded
\* inserts again the rows that run uploaded.
C24_RerunInsertsAgain ==
    (pc = "done" /\ HasPrevReport) =>
        \A k \in PrevUploadedKeys :
            \E j \in 1..Len(push_log) : push_log[j][2] /\ push_log[j][1] = raw[k]

\* C24 amended: the second run's baseline reads the rows the first run
\* uploaded; a row that is still stored after the pruning is not in the
\* second delta, so no second record with its composite key is pushed; only
\* a row the second run pruned as expired is inserted again (unless another
\* stored record still carries its key).
C24_RerunSkipsStoredRows ==
    (pc \in {"upload", "done"} /\ HasPrevReport) =>
        \A k \in PrevUploadedKeys :
            /\ k \in DOMAIN raw
            /\ IF k \in DOMAIN cleaned
               THEN \A j \in 1..Len(all_delta_rows) :
                        ClaimRowKey(all_delta_rows[j])
                            # baseline_key(pipeline, cleaned[k])
               ELSE /\ ClaimExpired(raw[k]) /\ k \in DeletedOk
                    /\ baseline_key(pipeline, raw[k]) \notin existing_keys =>
                           \E j \in 1..Len(all_delta_rows) :
                               all_delta_rows[j] = raw[k]

\* the second run skipped a row the first run had uploaded
C24_Witness ==
    /\ pc = "done" /\ run = 2 /\ HasPrevReport
    /\ PrevReport.uploaded >= 1
    /\ \E k \in PrevUploadedKeys : k \in DOMAIN remote /\ k \in DOMAIN cleaned
    /\ stats.skipped_existing >= 1

\* the steps of a run that follow the baseline step
AfterBaseline == {"baselined", "scan", "scanned", "upload", "done"}

\* C22: the Existing-Key Set is the key set the baseline step returned and
\* no later step of the run changes it: the scan that keeps a row does not
\* add its key; the existing-key count of the report is the size of the set.
C22_ExistingKeysReadOnly ==
    [][/\ (pc \in AfterBaseline /\ pc' # "start") =>
              existing_keys' = existing_keys
       /\ pc' \in AfterBaseline =>
              existing_keys' = KeySetOf(pipeline, cleaned')
       /\ (pc = "upload" /\ pc' = "done") =>
              report'[Len(report')].existing_keys_count
                  = Cardinality(existing_keys)]_vars

\* a run that kept a row while the set was not empty has returned its report
C22_Witness ==
    /\ pc = "done" /\ Reported
    /\ existing_keys # {}
    /\ stats.kept_delta >= 1 /\ stats.skipped_existing >= 1

\* the first ref.get() of the call returned no mapping, or nothing
ReadNotMapping == pc # "start" /\ (node_kind # "dict" \/ raw = EmptyMap)

\* C25: when the first read returns None, a list, a scalar or an empty
\* mapping, the call takes the collection for empty and does not fail: no
\* delete is issued, the node is left as it is, and the call returns with
\* expired_keys_count = 0, expired_deleted_from_firebase = 0, kept_count = 0
\* and an empty Existing-Key Set.
C25_NonMappingReadIsEmpty ==
    ReadNotMapping =>
        /\ raw = EmptyMap
        /\ expired_keys_count = 0 /\ del_i > Len(expired_keys)
        /\ del_log = <<>> /\ expired_deleted = 0
        /\ "delete" \notin {oplog[i] : i \in 1..Len(oplog)}
        /\ pc = "baselined" =>
              /\ cleaned = EmptyMap /\ kept_count = 0
              /\ existing_keys = {}

\* the call returned on a node that holds a list with a record whose
\* deadline is before today
C25_Witness ==
    /\ pc = "baselined" /\ node_kind = "list"
    /\ \E k \in DOMAIN remote : ClaimExpired(remote[k])
    /\ expired_keys_count = 0 /\ kept_count = 0

\* the positions of the operation log that hold the operation op
OpsAt(op) == {i \in 1..Len(oplog) : oplog[i] = op}

\* the operations of the baseline step, of the scans, of the upload
BaselineOps == {"unlink_latest", "get", "delete", "write_latest"}
ScanOps == {"fetch", "unlink_extract", "write_extract"}

\* C21: within a run every operation of the baseline step (both reads,
\* every pruning delete, the snapshot file) precedes the first page fetch;
\* the sources are scanned one after the other in list order; every page
\* fetch and source file precedes the first push.
C21_StepsInFixedOrder ==
    /\ \A i, j \in 1..Len(oplog) :
          \/ (oplog[i] \in BaselineOps /\ oplog[j] \in ScanOps)
          \/ (oplog[i] \in BaselineOps /\ oplog[j] = "push")
          \/ (oplog[i] \in ScanOps /\ oplog[j] = "push")
          => i < j
    /\ OpsAt("fetch") # {} =>
          /\ Cardinality(OpsAt("get")) = 2
          /\ Cardinality(OpsAt("delete")) = Len(expired_keys)
          /\ Cardinality(OpsAt("write_latest")) = 1
    /\ OpsAt("push") # {} =>
          Cardinality(OpsAt("write_extract")) = Len(DEFAULT_SOURCES)
    /\ Cardinality(OpsAt("write_extract")) <= Len(DEFAULT_SOURCES)

\* a run that deleted, fetched and pushed has returned its report
C21_Witness ==
    /\ pc = "done"
    /\ OpsAt("delete") # {} /\ OpsAt("fetch") # {} /\ OpsAt("push") # {}

\* C29: when a source scan fails after the baseline step returned, the run
\* pushes nothing, the collection is what the baseline step left and the
\* records it deleted stay deleted; when the init of the remote store fails
\* at the start of the baseline step, the run reads, deletes and pushes
\* nothing and deletes no local file.
C29_FailureLeavesNoPartialUpload ==
    /\ (pc = "failed" /\ failure \in {"fetch", "TypeError"}) =>
          /\ OpsAt("push") = {} /\ push_log = <<>>
          /\ DOMAIN remote = DOMAIN cleaned
          /\ \A k \in DOMAIN remote : remote[k] = cleaned[k]
          /\ DeletedOk \cap DOMAIN remote = {}
    /\ (pc = "failed" /\ failure = "init") =>
          /\ oplog = <<>>
          /\ raw = <<>> /\ del_log = <<>> /\ fetched = <<>>
          /\ push_log = <<>>

\* a page fetch failed after the baseline step had deleted a record and
\* left another one
C29_Witness ==
    /\ pc = "failed" /\ failure = "fetch"
    /\ DeletedOk # {} /\ DOMAIN remote # {}
    /\ OpsAt("push") = {}

-----------------------------------------------------------------------------
(* Claims about two interleaved runs (checked under SpecTwoRuns)           *)

\* the push keys generated for the rows of the first and the second request
FirstPushedKeys ==
    {push_log[i][3] : i \in {j \in 1..Len(push_log) : push_log[j][2]}}
SecondPushedKeys == {second.push_log[i] : i \in 1..Len(second.push_log)}

\* the push keys the second request issued a delete for
SecondDeletesIssued == {second.del_log[i][1] : i \in 1..Len(second.del_log)}

\* both requests took their baseline before either uploaded: no snapshot
\* of one holds a record the other pushed
BaselinesBeforeUploads ==
    /\ FirstPushedKeys \cap (DOMAIN second.raw \cup DOMAIN second.cleaned) = {}
    /\ SecondPushedKeys \cap (DOMAIN raw \cup DOMAIN cleaned) = {}

\* the stored records that carry the composite key key
RecordsWithKey(key) ==
    {k \in DOMAIN remote : baseline_key(pipeline, remote[k]) = key}

\* C23: when two runs on one collection interleave so that both take their
\* baseline before either uploads, every listed item whose key is in
\* neither Existing-Key Set ends up stored at least twice, once by each
\* run; and every expired record that both runs read in their first
\* snapshot gets a delete from both.
C23_InterleavedRunsDuplicateAndDoubleDelete ==
    /\ (pc = "done" /\ second.pc = "done" /\ BaselinesBeforeUploads) =>
          \A i \in 1..Len(Flatten(fetched)) :
              LET item == Flatten(fetched)[i]
              IN (/\ ClaimHasId(item)
                  /\ ClaimKey(item) \notin existing_keys
                  /\ ClaimKey(item) \notin second.existing_keys) =>
                    /\ RecordsWithKey(ClaimKey(item)) \cap FirstPushedKeys # {}
                    /\ RecordsWithKey(ClaimKey(item)) \cap SecondPushedKeys
                           # {}
                    /\ Cardinality(RecordsWithKey(ClaimKey(item))) >= 2
    /\ (pc \in AfterBaseline /\ second.pc \notin {"start", "prune"}) =>
          \A k \in DOMAIN raw \cap DOMAIN second.raw :
              ClaimExpired(raw[k]) =>
                  DeletesIssuedFor(k) # {} /\ k \in SecondDeletesIssued

\* both runs have returned: two records with one composite key are stored,
\* one pushed by each, and one expired record got a delete from both
C23_Witness ==
    /\ pc = "done" /\ second.pc = "done"
    /\ \E k1 \in FirstPushedKeys \cap DOMAIN remote :
          \E k2 \in SecondPushedKeys \cap DOMAIN remote :
              /\ baseline_key(pipeline, remote[k1]) # NoKey
              /\ baseline_key(pipeline, remote[k1])
                     = baseline_key(pipeline, remote[k2])
    /\ \E k \in SecondDeletesIssued :
          DeletesIssuedFor(k) # {} /\ ClaimExpired(raw[k])

====
